---- MODULE Spec2Model ----
(***************************************************************************)
(* A model of the TFTP server's per-transfer session engine:               *)
(* TftpServerImpl::HandleClient, HandleReadRequest, HandleWriteRequest,    *)
(* SendPacket, SendError and ReceivePacket (src/src/internal/              *)
(* tftp_server_impl.cpp).  One behaviour of Spec is one session: the       *)
(* worker receives the first datagram of a client, and then runs the       *)
(* stop-and-wait loop against a peer that may send any packet from any     *)
(* address, stay silent, or send bytes that do not decode.                 *)
(*                                                                         *)
(* ServerSpec is the life cycle of the server object: Start, Stop and      *)
(* IsRunning called by one controlling thread, the dispatcher thread       *)
(* (ServerLoop) and the workers of the thread pool.                        *)
(***************************************************************************)
EXTENDS Integers, Sequences, FiniteSets, TLC

(***************************************************************************)
(* Program constants.                                                      *)
(***************************************************************************)
kMaxDataSize == 512
kMaxRetries == 5
kMinTransferSize == 512

kReadRequest == 1
kWriteRequest == 2
kData == 3
kAcknowledge == 4
kError == 5
kOACK == 6

kNotDefined == 0
kFileNotFound == 1
kAccessViolation == 2
kDiskFull == 3
kIllegalOperation == 4
kUnknownTransferId == 5

\* uint16_t block numbers
BlockModulus == 65536

(***************************************************************************)
(* Bounds of the model.                                                    *)
(***************************************************************************)
\* the largest configured max_transfer_size, in units of kMinTransferSize,
\* and the number of full blocks of the largest stored file
MaxBlocks == 2

\* the number of worker threads of the pool (thread_pool_size_)
NumWorkers == 2

\* the most tasks the model lets wait in the pool's queue
MaxQueued == 2

(***************************************************************************)
(* Small helpers                                                           *)
(***************************************************************************)
Min(a, b) == IF a < b THEN a ELSE b

\* n bytes all equal to v
Fill(n, v) == [i \in 1..n |-> v]

\* a stored file of n bytes whose bytes differ from block to block
FileBytes(n) == [i \in 1..n |-> (i + (i \div kMaxDataSize)) % 256]

\* a block counter wider than 16 bits
IncBlock_NoWrap(b) == b + 1

\* addition on uint16_t
IncBlock(b) == (b + 1) % BlockModulus
DecBlock(b) == (b + BlockModulus - 1) % BlockModulus

(***************************************************************************)
(* Strings the code parses are sequences of one-character strings.         *)
(***************************************************************************)
IsDigit(c) == c \in {"0", "1", "2", "3", "4", "5", "6", "7", "8", "9"}

DigitVal(c) ==
    CASE c = "0" -> 0 [] c = "1" -> 1 [] c = "2" -> 2 [] c = "3" -> 3
      [] c = "4" -> 4 [] c = "5" -> 5 [] c = "6" -> 6 [] c = "7" -> 7
      [] c = "8" -> 8 [] c = "9" -> 9

\* the length of the longest prefix of s made of digits
RECURSIVE DigitPrefixLen(_)
DigitPrefixLen(s) ==
    IF s = <<>> \/ ~IsDigit(Head(s)) THEN 0 ELSE 1 + DigitPrefixLen(Tail(s))

RECURSIVE DigitsValue(_, _)
DigitsValue(s, acc) ==
    IF s = <<>> \/ ~IsDigit(Head(s)) THEN acc
    ELSE DigitsValue(Tail(s), acc * 10 + DigitVal(Head(s)))

RECURSIVE SkipSpace(_)
SkipSpace(s) == IF s # <<>> /\ Head(s) = " " THEN SkipSpace(Tail(s)) ELSE s

\* std::stoull on the strings the model draws (no minus sign, at most a few
\* digits): leading white space and one '+' are skipped, the digits that
\* follow are converted and anything after them is ignored; with no digit
\* std::invalid_argument is thrown (ok = FALSE).
Stoull(str) ==
    LET t == SkipSpace(str)
        u == IF t # <<>> /\ Head(t) = "+" THEN Tail(t) ELSE t
    IN  IF DigitPrefixLen(u) = 0 THEN [ok |-> FALSE, val |-> 0]
        ELSE [ok |-> TRUE, val |-> DigitsValue(u, 0)]

(***************************************************************************)
(* Packets: the decoded form, one record shape for all six types, with the *)
(* defaults of a freshly constructed TftpPacket.                           *)
(***************************************************************************)
NoOptions == <<>>

DefaultPacket ==
    [op |-> kReadRequest, block |-> 0, code |-> kNotDefined, filename |-> <<>>,
     data |-> <<>>, msg |-> "", options |-> NoOptions]

CreateRequest(op, filename, options) ==
    [DefaultPacket EXCEPT !.op = op, !.filename = filename, !.options = options]

CreateData(block_number, data) ==
    [DefaultPacket EXCEPT !.op = kData, !.block = block_number, !.data = data]

CreateAck(block_number) ==
    [DefaultPacket EXCEPT !.op = kAcknowledge, !.block = block_number]

CreateError(code, message) ==
    [DefaultPacket EXCEPT !.op = kError, !.code = code, !.msg = message]

CreateOACK(options) ==
    [DefaultPacket EXCEPT !.op = kOACK, !.options = options]

\* what a receive that delivers no packet leaves behind
NoPacket == [DefaultPacket EXCEPT !.op = 0]

(***************************************************************************)
(* Options of a request: a function from option names to values.           *)
(***************************************************************************)
\* std::stoi on the strings the model draws: as Stoull, with a '-' sign
Stoi(str) ==
    LET t == SkipSpace(str)
        neg == t # <<>> /\ Head(t) = "-"
        u == IF t # <<>> /\ Head(t) \in {"+", "-"} THEN Tail(t) ELSE t
    IN  IF DigitPrefixLen(u) = 0 THEN [ok |-> FALSE, val |-> 0]
        ELSE [ok |-> TRUE,
              val |-> IF neg THEN 0 - DigitsValue(u, 0) ELSE DigitsValue(u, 0)]

\* the value the write handler puts in the OACK for one option of the request
OackValue(name, value) ==
    CASE name = "tsize" -> value
      [] name = "blksize" ->
            IF Stoi(value).ok /\ Stoi(value).val >= 8 /\ Stoi(value).val <= 65464
            THEN value ELSE <<"5", "1", "2">>
      [] name = "timeout" ->
            IF Stoi(value).ok /\ Stoi(value).val >= 1 /\ Stoi(value).val <= 255
            THEN value ELSE <<"6">>
      [] OTHER -> value

\* the OACK built from the options of a request: every option of the request
\* is written, name first, then the value
BuildOack(options) ==
    CreateOACK([n \in DOMAIN options |-> OackValue(n, options[n])])

(***************************************************************************)
(* Path safety: the lexical checks of util::IsPathSecure (POSIX build).    *)
(* The root directory of the model holds regular files only, so a name     *)
(* that passes them resolves inside the root.                              *)
(***************************************************************************)
Contains(s, pat) ==
    \E i \in 1..(Len(s) - Len(pat) + 1) : SubSeq(s, i, i + Len(pat) - 1) = pat

DangerousPatterns ==
    { <<".", ".">>, <<".", ".", "\\">>, <<".", ".", "/">>, <<"\\", ".", ".", "\\">>,
      <<"/", ".", ".">>, <<".", "\\">>, <<".", "/">>, <<"\\", ".", "\\">>,
      <<"/", ".", "/">>, <<"~">>, <<"$">>, <<"%">>, <<"<">>, <<">">>, <<"|">>,
      <<"?">>, <<"*">> }

IsPathSecure(path) ==
    /\ path # <<>>
    /\ ~Contains(path, <<"NUL">>)
    /\ Head(path) # "/"
    /\ \A pat \in DangerousPatterns : ~Contains(path, pat)

(***************************************************************************)
(* The inputs of a session.                                                *)
(***************************************************************************)
\* the source addresses datagrams come from; the first datagram comes from
\* one of Clients
Tids == {"A", "B"}
Clients == {"A"}

Filenames == { <<"f">>, <<".", ".", "/", "s">> }

OptionSets ==
    { NoOptions,
      [n \in {"tsize"} |-> <<"0">>],
      [n \in {"tsize"} |-> <<"1", "0", "2", "6">>],
      [n \in {"tsize"} |-> <<"x">>],
      [n \in {"blksize", "foo"} |-> <<"9">>],
      [n \in {"foo"} |-> <<"9">>],
      [n \in {"blksize", "timeout"} |->
          IF n = "blksize" THEN <<"7">> ELSE <<"2", "5", "5">>],
      [n \in {"blksize", "timeout"} |->
          IF n = "blksize" THEN <<"9", "x">> ELSE <<"2", "5", "6">>],
      [n \in {"timeout"} |-> <<"x">>] }

\* the first datagram of a client, decoded; NoPacket when it does not decode
InitPackets ==
    { CreateRequest(kWriteRequest, f, o) : f \in Filenames, o \in OptionSets }
    \cup { CreateRequest(kReadRequest, f, o) :
               f \in Filenames, o \in {NoOptions, [n \in {"tsize"} |-> <<"0">>]} }
    \cup { CreateAck(1), CreateData(1, <<>>), CreateError(kNotDefined, "abort"),
           CreateOACK(NoOptions), NoPacket }

\* max_transfer_size as SetMaxTransferSize accepts it
TransferSizes == { k * kMinTransferSize : k \in 1..MaxBlocks }

\* what the read callback returns: failure, or the bytes of the file
StoredFiles ==
    { FileBytes(k * kMaxDataSize + r) : k \in 0..MaxBlocks, r \in {0, 1} }

\* the payloads a peer puts in a DATA packet
Payloads ==
    { <<>>, Fill(1, 17), Fill(kMaxDataSize, 17), Fill(kMaxDataSize, 34) }

\* the number of consecutive sendto calls that fail from some point on
SendFailures == {0, kMaxRetries, kMaxRetries * kMaxRetries}

(***************************************************************************)
(* State                                                                   *)
(***************************************************************************)
VARIABLES
    secure_mode,        \* configuration
    max_transfer_size,
    init_pkt,           \* the first datagram, decoded
    client_addr,        \* its source: the client TID
    pc,                 \* where the worker is: Start, WaitAck, WaitData, Done
    result,             \* how the handler returned
    sock_open,          \* the session socket
    sock_created,       \* socket() has returned a session socket
    file_data,          \* the bytes read from storage (RRQ), received (WRQ)
    offset,             \* RRQ: bytes acknowledged
    block_number,       \* RRQ: the block being sent
    expected_block,     \* WRQ: the block waited for
    has_expected_size,  \* WRQ: tsize parsed
    expected_file_size,
    trace,              \* what went over the session socket, in order
    write_calls         \* the buffers handed to the write callback

\* the server object, its dispatcher thread and its pool
VARIABLES
    running_,           \* std::atomic<bool>
    sockfd_,            \* invalid (-1), open, or closed (a stale descriptor)
    server_thread_,     \* none (not joinable) or joinable
    thread_pool_,       \* the pool exists
    thread_pool_mutex_, \* who holds it: free, Stop or ServerLoop
    stopping_,          \* the pool's flag
    tasks_,             \* the number of queued tasks
    workers_,           \* each worker thread: none, wait, run or exited
    api_pc,             \* where the controlling thread is: idle, or inside Stop
    loop_pc,            \* where the dispatcher thread is
    last_call,          \* the last call that returned: none, Start or Stop
    last_ret,           \* what the last Start returned
    close_wakes         \* the platform: closing a socket ends a recvfrom that
                        \* is blocked on it in another thread

server_vars == <<running_, sockfd_, server_thread_, thread_pool_, thread_pool_mutex_,
                 stopping_, tasks_, workers_, api_pc, loop_pc, last_call, last_ret,
                 close_wakes>>

session_vars == <<secure_mode, max_transfer_size, init_pkt, client_addr, pc, result,
                  sock_open, sock_created, file_data, offset, block_number,
                  expected_block, has_expected_size, expected_file_size, trace,
                  write_calls>>

\* the rest of the configuration of the server object, and the last setter
\* that was called on it
VARIABLES
    read_callback_,     \* std::function: null, the default handler, or a user's
    write_callback_,
    timeout_seconds_,
    last_setter         \* [name, arg, threw, before]

config_vars == <<read_callback_, write_callback_, timeout_seconds_, last_setter>>

\* one TftpPacket object and the buffer it is serialized to and from
VARIABLES
    packet_,            \* the fields of the object
    wire,               \* std::vector<uint8_t>: the bytes, each 0..255
    codec_pc,           \* idle, built, serialized, received, decoded, redecoded
    codec_ret,          \* what the last Deserialize returned
    original,           \* the object as it was when Serialize was called
    from_wire           \* the object serialized last was itself decoded

codec_vars == <<packet_, wire, codec_pc, codec_ret, original, from_wire>>

\* one call of util::IsPathSecure and the file system it runs on
VARIABLES
    path_arg,           \* the requested name: a sequence of characters
    root_arg,           \* the root directory: a sequence of characters
    links_arg,          \* the symbolic links: a function from paths to paths
    path_pc,            \* idle, call or done
    path_ret,           \* what the call returned
    path_raised         \* std::filesystem threw inside the call

path_vars == <<path_arg, root_arg, links_arg, path_pc, path_ret, path_raised>>

\* the rest of a TftpThreadPool, one thread that calls Submit and one that
\* calls Shutdown
VARIABLES
    queue_mutex_,       \* free or locked
    active_tasks_,      \* std::atomic<size_t>
    submit_pc,          \* where the thread in Submit is
    shutdown_pc,        \* where the thread in Shutdown is
    submits,            \* the calls of Submit so far
    accepted,           \* the calls of Submit that returned normally
    executed,           \* the tasks that have run
    discarded,          \* the tasks Shutdown has swapped out of the queue
    shutdowns,          \* the calls of Shutdown that have returned
    late,               \* the tasks put in the queue while stopping_ was set
    submit_after,       \* the last Submit began after a Shutdown had returned
    submit_ret,         \* how the last Submit ended: none, ok or threw
    caught              \* for each worker, the exceptions its catch has seen

pool_vars == <<queue_mutex_, active_tasks_, submit_pc, shutdown_pc, submits, accepted,
               executed, discarded, shutdowns, late, submit_after, submit_ret, caught>>

\* the dispatcher seen from the clients: who sent each datagram
VARIABLES
    datagram_from,      \* the source of the datagram recvfrom returned, or none
    queued_from,        \* the client_addr captured by each queued task, in order
    serving             \* for each worker, the client of the HandleClient it runs

dispatch_vars == <<datagram_from, queued_from, serving>>

\* config_mutex_, one session thread inside HandleReadRequest's locked block
\* and one thread that calls a setter
VARIABLES
    config_mutex_,      \* the number of shared holders; no one locks it uniquely
    reader_pc,          \* where the session thread is
    setter_pc,          \* where the thread that calls a setter is: [at, arg]
    observed,           \* what the session has read: [callback, size]
    overlap             \* a setter has written while the shared lock was held

lock_vars == <<config_mutex_, reader_pc, setter_pc, observed, overlap>>

\* a transfer seen by its sizes only, for files of more than 65535 blocks
VARIABLES
    transfer,           \* none, rrq or wrq
    file_size,          \* file_data.size()
    blocks,             \* the blocks acknowledged so far, counted without wrap
    xfer_pc             \* loop, or how the handler returned

wrap_vars == <<transfer, file_size, blocks, xfer_pc>>

rest_vars == <<dispatch_vars, lock_vars, wrap_vars>>

\* the state the other specifications of this module leave alone
other_vars == <<config_vars, codec_vars, path_vars, pool_vars, rest_vars>>

vars == <<session_vars, server_vars, other_vars>>

Workers == 1..NumWorkers

\* TftpServerImpl's constructor: the callbacks and the timeout
ConfigConstructed ==
    /\ read_callback_ = "DefaultReadHandler"
    /\ write_callback_ = "DefaultWriteHandler"
    /\ timeout_seconds_ = 5
    /\ last_setter = [name |-> "none"]

\* TftpPacket::ResetState, which is also what the member initializers give:
\* a string or vector is a sequence of bytes, options_ a function from names
\* to values
ResetState ==
    [op_code_ |-> kReadRequest,
     block_number_ |-> 0,
     error_code_ |-> kNotDefined,
     filename_ |-> <<>>,
     mode_ |-> "kOctet",
     data_ |-> <<>>,
     error_message_ |-> <<>>,
     options_ |-> <<>>]

\* a default-constructed packet and an empty buffer
CodecIdle ==
    /\ packet_ = ResetState
    /\ wire = <<>>
    /\ codec_pc = "idle"
    /\ codec_ret = FALSE
    /\ original = ResetState
    /\ from_wire = FALSE

\* IsPathSecure is not being called
PathIdle ==
    /\ path_arg = <<>>
    /\ root_arg = <<>>
    /\ links_arg = <<>>
    /\ path_pc = "idle"
    /\ path_ret = FALSE
    /\ path_raised = FALSE

\* nothing has been submitted to a pool or run by it
PoolIdle ==
    /\ queue_mutex_ = "free"
    /\ active_tasks_ = 0
    /\ submit_pc = "idle"
    /\ shutdown_pc = "idle"
    /\ submits = 0
    /\ accepted = 0
    /\ executed = 0
    /\ discarded = 0
    /\ shutdowns = 0
    /\ late = 0
    /\ submit_after = FALSE
    /\ submit_ret = "none"
    /\ caught = [w \in Workers |-> 0]

\* no datagram has arrived
DispatchIdle ==
    /\ datagram_from = "none"
    /\ queued_from = <<>>
    /\ serving = [w \in Workers |-> "none"]

\* no session is inside a locked block and no setter is being called
LockIdle ==
    /\ config_mutex_ = 0
    /\ reader_pc = "idle"
    /\ setter_pc = [at |-> "idle"]
    /\ observed = [callback |-> "none", size |-> 0]
    /\ overlap = FALSE

\* no transfer is under way
WrapIdle ==
    /\ transfer = "none"
    /\ file_size = 0
    /\ blocks = 0
    /\ xfer_pc = "idle"

RestIdle == DispatchIdle /\ LockIdle /\ WrapIdle

\* the parts of the program a specification does not exercise
OthersIdle == ConfigConstructed /\ CodecIdle /\ PathIdle /\ PoolIdle /\ RestIdle

\* the server object after construction
Constructed ==
    /\ running_ = FALSE
    /\ sockfd_ = "invalid"
    /\ server_thread_ = "none"
    /\ thread_pool_ = FALSE
    /\ thread_pool_mutex_ = "free"
    /\ stopping_ = FALSE
    /\ tasks_ = 0
    /\ workers_ = [w \in Workers |-> "none"]
    /\ api_pc = "idle"
    /\ loop_pc = "none"
    /\ last_call = "none"
    /\ last_ret = FALSE

\* one entry of the trace.  kind: send (a sendto that succeeded), sendfail (one
\* that failed), recv (a packet ReceivePacket returned; acc tells whether the
\* handler took it as the packet it waited for), timeout, garbage (bytes that
\* did not decode), read and write (the storage callbacks; acc is the result)
Ev(kind, addr, pkt, acc) == [kind |-> kind, addr |-> addr, pkt |-> pkt, acc |-> acc]

Init ==
    /\ secure_mode \in BOOLEAN
    /\ max_transfer_size \in TransferSizes
    /\ init_pkt \in InitPackets
    /\ client_addr \in Clients
    /\ pc = "Start"
    /\ result = "Running"
    /\ sock_open = FALSE
    /\ sock_created = FALSE
    /\ file_data = <<>>
    /\ offset = 0
    /\ block_number = 1
    /\ expected_block = 1
    /\ has_expected_size = FALSE
    /\ expected_file_size = 0
    /\ trace = <<>>
    /\ write_calls = <<>>
    /\ Constructed
    /\ close_wakes = FALSE
    /\ OthersIdle

(***************************************************************************)
(* Sending.  f is the number of sendto calls that fail from now on; the    *)
(* handlers draw one such number for each packet they send.                *)
(***************************************************************************)
\* SendPacket: up to kMaxRetries sendto calls, until one succeeds
SendPacket(addr, packet, f) ==
    [ok |-> f < kMaxRetries,
     ev |-> [i \in 1..Min(f, kMaxRetries) |-> Ev("sendfail", addr, packet, FALSE)]
            \o (IF f < kMaxRetries THEN <<Ev("send", addr, packet, TRUE)>> ELSE <<>>),
     rest |-> IF f < kMaxRetries THEN 0 ELSE f - kMaxRetries]

\* SendError: up to kMaxRetries SendPacket calls, until one succeeds
RECURSIVE SendErrorLoop(_, _, _, _)
SendErrorLoop(addr, packet, f, retry) ==
    IF retry >= kMaxRetries THEN [ok |-> FALSE, ev |-> <<>>, rest |-> f]
    ELSE LET r == SendPacket(addr, packet, f)
         IN  IF r.ok THEN r
             ELSE LET n == SendErrorLoop(addr, packet, r.rest, retry + 1)
                  IN  [ok |-> n.ok, ev |-> r.ev \o n.ev, rest |-> n.rest]

SendError(addr, code, message, f) ==
    SendErrorLoop(addr, CreateError(code, message), f, 0)

\* the OACK is sent with one sendto
SendOack(addr, packet, f) ==
    [ok |-> f = 0,
     ev |-> IF f = 0 THEN <<Ev("send", addr, packet, TRUE)>>
            ELSE <<Ev("sendfail", addr, packet, FALSE)>>,
     rest |-> IF f = 0 THEN 0 ELSE f - 1]

(***************************************************************************)
(* Receiving: what one ReceivePacket call on the session socket returns.   *)
(***************************************************************************)
\* the packets a peer may send while the session is at block b: ACKs and
\* DATA of block b and of its neighbours, an ERROR and an OACK
PeerPackets(b) ==
    { CreateAck(n) : n \in {DecBlock(b), b, IncBlock(b)} }
    \cup { CreateData(b, d) : d \in Payloads }
    \cup { CreateData(n, Fill(1, 17)) : n \in {DecBlock(b), IncBlock(b)} }
    \cup { CreateError(kNotDefined, "abort"), CreateOACK(NoOptions) }

\* ReceivePacket returns false on a timeout and on bytes that do not decode,
\* and otherwise the packet with its source address
Receives(b) ==
    { [kind |-> "timeout", addr |-> "none", pkt |-> NoPacket] }
    \cup { [kind |-> "garbage", addr |-> t, pkt |-> NoPacket] : t \in Tids }
    \cup { [kind |-> "recv", addr |-> t, pkt |-> p] : t \in Tids, p \in PeerPackets(b) }

(***************************************************************************)
(* The handlers.  Each takes the worker's state s (a record of the session *)
(* variables, with ev the trace entries made so far in this step) and      *)
(* returns the state at the next receive or at the handler's return.       *)
(***************************************************************************)
Cur ==
    [pc |-> pc, result |-> result, file_data |-> file_data, offset |-> offset,
     block_number |-> block_number, expected_block |-> expected_block,
     has_expected_size |-> has_expected_size,
     expected_file_size |-> expected_file_size,
     ev |-> <<>>, wcalls |-> write_calls, created |-> sock_created]

Return(s, ev, how) == [s EXCEPT !.pc = "Done", !.result = how, !.ev = @ \o ev]

\* the size of the block at s.offset
BlockSize(s) ==
    LET remaining == Len(s.file_data) - s.offset
    IN  IF remaining > kMaxDataSize THEN kMaxDataSize ELSE remaining

\* a comparison that is off by one: a full block ends the transfer too
IsLastPacket_OffByOne(block_size) == block_size <= kMaxDataSize

\* last_packet: the transfer ends with the first block shorter than
\* kMaxDataSize
IsLastPacket(block_size) == block_size < kMaxDataSize

\* the ACK the read loop waits for
IsExpectedAck(packet, block) == packet.op = kAcknowledge /\ packet.block = block

\* HandleReadRequest, top of the loop: send the block at s.offset
SendBlock(s, f) ==
    LET block_size == BlockSize(s)
        block_data == SubSeq(s.file_data, s.offset + 1, s.offset + block_size)
        r == SendPacket(client_addr, CreateData(s.block_number, block_data), f)
    IN  IF ~r.ok THEN Return(s, r.ev, "SendFailed")
        ELSE [s EXCEPT !.pc = "WaitAck", !.ev = @ \o r.ev]

\* a comparison that is off by one: one byte over the limit passes
ReadTooLarge_OffByOne(data) == Len(data) > max_transfer_size + 1

\* file_data.size() > max_size
ReadTooLarge(data) == Len(data) > max_transfer_size

\* HandleReadRequest up to its first receive; rd is what read_callback_ returns
HandleReadRequest(s, rd, f) ==
    LET s1 == [s EXCEPT !.ev = @ \o <<Ev("read", "none",
                                          [NoPacket EXCEPT !.data = rd.data], rd.ok)>>]
    IN  IF ~rd.ok
        THEN Return(s1, SendError(client_addr, kFileNotFound, "File not found", f).ev,
                    "FileNotFound")
        ELSE IF ReadTooLarge(rd.data)
        THEN Return(s1, SendError(client_addr, kDiskFull, "File size too large", f).ev,
                    "FileTooLarge")
        ELSE SendBlock([s1 EXCEPT !.file_data = rd.data, !.block_number = 1,
                                  !.offset = 0], f)

\* HandleReadRequest from a receive to the next receive; rcv is what
\* ReceivePacket returns
ReadLoop(s, rcv, f) ==
    IF rcv.kind # "recv"
    THEN Return(s, <<Ev(rcv.kind, rcv.addr, rcv.pkt, FALSE)>>, "AckTimeout")
    ELSE IF ~IsExpectedAck(rcv.pkt, s.block_number)
    THEN Return(s, <<Ev("recv", rcv.addr, rcv.pkt, FALSE)>>, "InvalidAck")
    ELSE LET block_size == BlockSize(s)
             s1 == [s EXCEPT !.ev = @ \o <<Ev("recv", rcv.addr, rcv.pkt, TRUE)>>,
                             !.offset = @ + block_size,
                             !.block_number = IncBlock(@)]
         IN  IF IsLastPacket(block_size) THEN Return(s1, <<>>, "Completed")
             ELSE SendBlock(s1, f)

\* HandleWriteRequest up to its first receive
HandleWriteRequest(s, packet, f) ==
    LET tsize == IF "tsize" \in DOMAIN packet.options
                 THEN Stoull(packet.options["tsize"])
                 ELSE [ok |-> FALSE, val |-> 0]
        s1 == [s EXCEPT !.has_expected_size = tsize.ok,
                        !.expected_file_size = tsize.val]
        r == IF DOMAIN packet.options # {}
             THEN SendOack(client_addr, BuildOack(packet.options), f)
             ELSE SendPacket(client_addr, CreateAck(0), f)
    IN  IF ~r.ok THEN Return(s1, r.ev, "SendFailed")
        ELSE [s1 EXCEPT !.pc = "WaitData", !.ev = @ \o r.ev, !.file_data = <<>>,
                        !.expected_block = 1]

\* a limit that is never enforced
ExceedsLimit_Never(s) == FALSE

\* the two size checks made after a block has been acknowledged
ExceedsLimit(s) == Len(s.file_data) > max_transfer_size

ExceedsTsize(s) ==
    s.has_expected_size /\ Len(s.file_data) > s.expected_file_size + kMaxDataSize

\* the address the ACK of a DATA packet is sent to: the source of that packet
AckAddress(data_addr) == data_addr

\* a check against the wrong opcode: an ACK passes as DATA
IsDataPacket_WrongOpcode(packet) == packet.op \in {kData, kAcknowledge}

\* the first check on a received packet in the write loop
IsDataPacket(packet) == packet.op = kData

\* an insert at the wrong end of the buffer
AppendBlock_AtFront(data, block_data) == block_data \o data

\* file_data.insert(file_data.end(), ...)
AppendBlock(data, block_data) == data \o block_data

\* a comparison that is off by one: a full block ends the transfer too
SizeBasedCompletion_OffByOne(block_data) == Len(block_data) <= kMaxDataSize

\* size_based_completion
SizeBasedCompletion(block_data) == Len(block_data) < kMaxDataSize

\* an end of the handler that acknowledges the final block only after the
\* write callback has run
WriteFile_AckAfter(s, write_ok, f) ==
    Return([s EXCEPT !.wcalls = Append(@, s.file_data)],
           <<Ev("write", "none", NoPacket, write_ok),
             Ev("send", client_addr, CreateAck(DecBlock(s.expected_block)), TRUE)>>,
           IF write_ok THEN "Completed" ELSE "WriteFailed")

\* the end of HandleWriteRequest: write_ok is what write_callback_ returns
WriteFile(s, write_ok, f) ==
    LET s1 == [s EXCEPT !.wcalls = Append(@, s.file_data),
                        !.ev = @ \o <<Ev("write", "none", NoPacket, write_ok)>>]
    IN  IF ~write_ok
        THEN Return(s1, SendError(client_addr, kAccessViolation, "File write failed", f).ev,
                    "WriteFailed")
        ELSE Return(s1, <<>>, "Completed")

\* HandleWriteRequest from a receive to the next receive or to its return
WriteLoop(s, rcv, write_ok, f, g) ==
    IF rcv.kind # "recv"
    THEN Return(s, <<Ev(rcv.kind, rcv.addr, rcv.pkt, FALSE)>>, "DataTimeout")
    ELSE IF ~IsDataPacket(rcv.pkt)
    THEN Return(s, <<Ev("recv", rcv.addr, rcv.pkt, FALSE)>>
                   \o SendError(client_addr, kIllegalOperation, "Illegal operation", g).ev,
                "IllegalOperation")
    ELSE IF rcv.pkt.block # s.expected_block
    THEN Return(s, <<Ev("recv", rcv.addr, rcv.pkt, FALSE)>>, "InvalidBlock")
    ELSE LET block_data == rcv.pkt.data
             s1 == [s EXCEPT !.ev = @ \o <<Ev("recv", rcv.addr, rcv.pkt, TRUE)>>,
                             !.file_data = AppendBlock(@, block_data)]
             r == SendPacket(AckAddress(rcv.addr), CreateAck(s.expected_block), f)
             s2 == [s1 EXCEPT !.ev = @ \o r.ev, !.expected_block = IncBlock(@)]
         IN  IF ~r.ok THEN Return(s1, r.ev, "SendFailed")
             ELSE IF ExceedsLimit(s2)
             THEN Return(s2, SendError(client_addr, kDiskFull, "File size too large",
                                       g).ev, "TooLarge")
             ELSE IF ExceedsTsize(s2)
             THEN Return(s2, SendError(client_addr, kDiskFull, "File size exceeds tsize",
                                       g).ev, "TsizeExceeded")
             ELSE IF ~SizeBasedCompletion(block_data) THEN s2
             ELSE WriteFile(s2, write_ok, g)

\* a decode that lets everything through
Deserialized_Always(packet) == TRUE

\* packet.Deserialize(initial_packet) returned true
Deserialized(packet) == packet # NoPacket

\* a path check that is never made
PathRejected_Never(secure, filename) == FALSE

\* the path check of HandleClient
PathRejected(secure, filename) == secure /\ ~IsPathSecure(filename)

\* what socket() and bind() of the session socket may do
SocketResults == {"ok", "socket_failed", "bind_failed"}

\* HandleClient up to the first receive of the handler it calls.  sock tells
\* whether socket() and bind() of the session socket succeed.
HandleClientStep(s, sock, rd, f) ==
    IF ~Deserialized(init_pkt) THEN Return(s, <<>>, "InvalidPacket")
    ELSE IF sock = "socket_failed" THEN Return(s, <<>>, "SocketFailed")
    ELSE LET s0 == [s EXCEPT !.created = TRUE]
         IN
    IF sock = "bind_failed" THEN Return(s0, <<>>, "SocketFailed")
    ELSE IF PathRejected(secure_mode, init_pkt.filename)
    THEN Return(s0, SendError(client_addr, kAccessViolation, "Access denied", f).ev,
                "AccessDenied")
    ELSE CASE init_pkt.op = kReadRequest -> HandleReadRequest(s0, rd, f)
           [] init_pkt.op = kWriteRequest -> HandleWriteRequest(s0, init_pkt, f)
           [] OTHER ->
                Return(s0, SendError(client_addr, kIllegalOperation, "Illegal operation",
                                     f).ev, "UnknownOpcode")

(***************************************************************************)
(* Actions                                                                 *)
(***************************************************************************)
ReadResults ==
    { [ok |-> FALSE, data |-> <<>>] } \cup { [ok |-> TRUE, data |-> d] : d \in StoredFiles }

\* the worker's variables after a step that ends in state n; the session
\* socket is open from bind to the return of HandleClient
Becomes(n) ==
    /\ pc' = n.pc
    /\ result' = n.result
    /\ file_data' = n.file_data
    /\ offset' = n.offset
    /\ block_number' = n.block_number
    /\ expected_block' = n.expected_block
    /\ has_expected_size' = n.has_expected_size
    /\ expected_file_size' = n.expected_file_size
    /\ trace' = trace \o n.ev
    /\ write_calls' = n.wcalls
    /\ sock_open' = (n.pc # "Done")
    /\ sock_created' = n.created
    /\ UNCHANGED <<secure_mode, max_transfer_size, init_pkt, client_addr>>
    /\ UNCHANGED <<server_vars, other_vars>>

HandleClient ==
    /\ pc = "Start"
    /\ \E sock \in SocketResults, rd \in ReadResults, f \in SendFailures :
          Becomes(HandleClientStep(Cur, sock, rd, f))

HandleReadRequestLoop ==
    /\ pc = "WaitAck"
    /\ \E rcv \in Receives(block_number), f \in SendFailures :
          Becomes(ReadLoop(Cur, rcv, f))

HandleWriteRequestLoop ==
    /\ pc = "WaitData"
    /\ \E rcv \in Receives(expected_block), write_ok \in BOOLEAN,
          f \in SendFailures, g \in SendFailures :
          Becomes(WriteLoop(Cur, rcv, write_ok, f, g))

Next == HandleClient \/ HandleReadRequestLoop \/ HandleWriteRequestLoop

Spec == Init /\ [][Next]_vars

(***************************************************************************)
(* The server object.  Start, Stop and IsRunning are called by one         *)
(* controlling thread, one call at a time.  Start runs while no other      *)
(* thread of the server exists, so it is one step; Stop runs beside the    *)
(* dispatcher and the workers and is split at the points where it waits.   *)
(***************************************************************************)
\* how socket(), setsockopt() and bind() of Start may end
StartResults == {"ok", "socket_failed", "setsockopt_failed", "bind_failed"}

\* a check that leaves the flag out
IsRunning_IgnoresFlag == sockfd_ # "invalid" /\ server_thread_ = "joinable"

\* TftpServerImpl::IsRunning: sockfd_ >= 0 also holds for a stale descriptor
IsRunning == running_ /\ sockfd_ # "invalid" /\ server_thread_ = "joinable"

Returns(call, ret) ==
    /\ api_pc' = "idle"
    /\ last_call' = call
    /\ last_ret' = ret

Start ==
    /\ api_pc = "idle"
    /\ IF running_
       THEN /\ Returns("Start", TRUE)
            /\ UNCHANGED <<running_, sockfd_, server_thread_, thread_pool_, stopping_,
                           tasks_, workers_, loop_pc>>
       ELSE \E r \in StartResults :
              IF r # "ok"
              THEN /\ sockfd_' = (IF r = "socket_failed" THEN "invalid" ELSE "closed")
                   /\ Returns("Start", FALSE)
                   /\ UNCHANGED <<running_, server_thread_, thread_pool_, stopping_,
                                  tasks_, workers_, loop_pc>>
              ELSE /\ sockfd_' = "open"
                   /\ thread_pool_' = TRUE
                   /\ stopping_' = FALSE
                   /\ tasks_' = 0
                   /\ workers_' = [w \in Workers |-> "wait"]
                   /\ running_' = TRUE
                   /\ server_thread_' = "joinable"
                   /\ loop_pc' = "while"
                   /\ Returns("Start", TRUE)
    /\ UNCHANGED <<thread_pool_mutex_, close_wakes>>
    /\ UNCHANGED <<session_vars, other_vars>>

\* Stop, up to the lock of thread_pool_mutex_
Stop ==
    /\ api_pc = "idle"
    /\ IF ~running_
       THEN /\ Returns("Stop", last_ret)
            /\ UNCHANGED running_
       ELSE /\ running_' = FALSE
            /\ api_pc' = "Stop_shutdown"
            /\ UNCHANGED <<last_call, last_ret>>
    /\ UNCHANGED <<sockfd_, server_thread_, thread_pool_, thread_pool_mutex_, stopping_,
                   tasks_, workers_, loop_pc, close_wakes>>
    /\ UNCHANGED <<session_vars, other_vars>>

\* thread_pool_->Shutdown(), up to the joins: the flag is raised and the
\* workers are notified
StopShutdown ==
    /\ api_pc = "Stop_shutdown"
    /\ thread_pool_mutex_ = "free"
    /\ thread_pool_mutex_' = "Stop"
    /\ stopping_' = (thread_pool_ \/ stopping_)
    /\ api_pc' = "Stop_join_workers"
    /\ UNCHANGED <<running_, sockfd_, server_thread_, thread_pool_, tasks_, workers_,
                   loop_pc, last_call, last_ret, close_wakes>>
    /\ UNCHANGED <<session_vars, other_vars>>

\* joins that do not wait
WorkersExited_NoWait == TRUE

\* worker.join() has returned for every worker
WorkersExited == \A w \in Workers : workers_[w] \in {"none", "exited"}

\* the rest of Shutdown, thread_pool_.reset() and the unlock
StopJoinWorkers ==
    /\ api_pc = "Stop_join_workers"
    /\ WorkersExited
    /\ tasks_' = 0
    /\ workers_' = [w \in Workers |-> "none"]
    /\ thread_pool_' = FALSE
    /\ stopping_' = FALSE
    /\ thread_pool_mutex_' = "free"
    /\ api_pc' = "Stop_close"
    /\ UNCHANGED <<running_, sockfd_, server_thread_, loop_pc, last_call, last_ret,
                   close_wakes>>
    /\ UNCHANGED <<session_vars, other_vars>>

StopCloseSocket ==
    /\ api_pc = "Stop_close"
    /\ sockfd_' = "invalid"
    /\ api_pc' = "Stop_join"
    /\ UNCHANGED <<running_, server_thread_, thread_pool_, thread_pool_mutex_, stopping_,
                   tasks_, workers_, loop_pc, last_call, last_ret, close_wakes>>
    /\ UNCHANGED <<session_vars, other_vars>>

\* a join that does not wait
DispatcherExited_NoWait == TRUE

\* server_thread_.join() returns once ServerLoop has returned
DispatcherExited == loop_pc = "exited"

StopJoinThread ==
    /\ api_pc = "Stop_join"
    /\ server_thread_ = "joinable" => DispatcherExited
    /\ server_thread_' = "none"
    /\ Returns("Stop", last_ret)
    /\ UNCHANGED <<running_, sockfd_, thread_pool_, thread_pool_mutex_, stopping_,
                   tasks_, workers_, loop_pc, close_wakes>>
    /\ UNCHANGED <<session_vars, other_vars>>

(***************************************************************************)
(* The dispatcher thread: ServerLoop.                                      *)
(***************************************************************************)
DispatcherAt(here, there) ==
    /\ loop_pc = here
    /\ loop_pc' = there
    /\ UNCHANGED <<running_, sockfd_, server_thread_, thread_pool_, thread_pool_mutex_,
                   stopping_, workers_, api_pc, last_call, last_ret, close_wakes>>
    /\ UNCHANGED <<session_vars, other_vars>>

\* while (running_)
ServerLoopTest ==
    /\ DispatcherAt("while", IF running_ THEN "recvfrom" ELSE "exited")
    /\ UNCHANGED tasks_

\* the call of recvfrom(sockfd_, ...): it blocks on an open socket and fails
\* at once on a descriptor that is not one
ServerLoopRecvfrom ==
    /\ DispatcherAt("recvfrom", IF sockfd_ = "open" THEN "blocked" ELSE "while")
    /\ UNCHANGED tasks_

\* a datagram arrives and recvfrom returns its length
DatagramArrives ==
    /\ tasks_ < MaxQueued
    /\ DispatcherAt("blocked", "submit")
    /\ UNCHANGED tasks_

\* the socket was closed under a blocked recvfrom, on a platform where that
\* makes the call fail
RecvfromInterrupted ==
    /\ close_wakes
    /\ sockfd_ # "open"
    /\ DispatcherAt("blocked", "while")
    /\ UNCHANGED tasks_

\* the task is submitted under thread_pool_mutex_, or dropped
ServerLoopSubmit ==
    /\ thread_pool_mutex_ = "free"
    /\ DispatcherAt("submit", "while")
    /\ tasks_' = IF thread_pool_ /\ ~stopping_ THEN tasks_ + 1 ELSE tasks_

(***************************************************************************)
(* The workers of the pool: TftpThreadPool::WorkerThread.  A task is one   *)
(* call of HandleClient, which returns.                                    *)
(***************************************************************************)
WorkerAt(w, here, there) ==
    /\ workers_[w] = here
    /\ workers_' = [workers_ EXCEPT ![w] = there]
    /\ UNCHANGED <<running_, sockfd_, server_thread_, thread_pool_, thread_pool_mutex_,
                   stopping_, api_pc, loop_pc, last_call, last_ret, close_wakes>>
    /\ UNCHANGED <<session_vars, other_vars>>

\* the wait ends with a task in the queue
WorkerTake(w) ==
    /\ tasks_ > 0
    /\ WorkerAt(w, "wait", "run")
    /\ tasks_' = tasks_ - 1

\* the wait ends with stopping_ set and an empty queue
WorkerExit(w) ==
    /\ stopping_
    /\ tasks_ = 0
    /\ WorkerAt(w, "wait", "exited")
    /\ UNCHANGED tasks_

\* the task returns; while (!stopping_)
WorkerFinish(w) ==
    /\ WorkerAt(w, "run", IF stopping_ THEN "exited" ELSE "wait")
    /\ UNCHANGED tasks_

\* no session is being served
HandlerIdle ==
    /\ init_pkt = NoPacket
    /\ client_addr = "A"
    /\ pc = "Start"
    /\ result = "Running"
    /\ sock_open = FALSE
    /\ sock_created = FALSE
    /\ file_data = <<>>
    /\ offset = 0
    /\ block_number = 1
    /\ expected_block = 1
    /\ has_expected_size = FALSE
    /\ expected_file_size = 0
    /\ trace = <<>>
    /\ write_calls = <<>>

ServerInit ==
    /\ secure_mode = TRUE
    /\ max_transfer_size = kMinTransferSize
    /\ HandlerIdle
    /\ Constructed
    /\ close_wakes \in BOOLEAN
    /\ OthersIdle

StopSteps == StopShutdown \/ StopJoinWorkers \/ StopCloseSocket \/ StopJoinThread

DispatcherSteps ==
    ServerLoopTest \/ ServerLoopRecvfrom \/ RecvfromInterrupted \/ ServerLoopSubmit

WorkerSteps(w) == WorkerTake(w) \/ WorkerExit(w) \/ WorkerFinish(w)

ServerNext ==
    \/ Start
    \/ Stop
    \/ StopShutdown
    \/ StopJoinWorkers
    \/ StopCloseSocket
    \/ StopJoinThread
    \/ ServerLoopTest
    \/ ServerLoopRecvfrom
    \/ DatagramArrives
    \/ RecvfromInterrupted
    \/ ServerLoopSubmit
    \/ \E w \in Workers : WorkerTake(w)
    \/ \E w \in Workers : WorkerExit(w)
    \/ \E w \in Workers : WorkerFinish(w)

ServerSpec == ServerInit /\ [][ServerNext]_vars

\* every thread of the program that can take a step eventually takes one;
\* nothing makes the user call Start or Stop, or a datagram arrive
ServerFairSpec ==
    /\ ServerSpec
    /\ WF_vars(StopSteps)
    /\ WF_vars(DispatcherSteps)
    /\ \A w \in Workers : WF_vars(WorkerSteps(w))

(***************************************************************************)
(* Properties.  Helpers over the trace first.                              *)
(***************************************************************************)
IsRead == init_pkt.op = kReadRequest
IsWrite == init_pkt.op = kWriteRequest
Done == pc = "Done"
Completed == pc = "Done" /\ result = "Completed"

IsSend(e, op) == e.kind = "send" /\ e.pkt.op = op
IsRecv(e, op) == e.kind = "recv" /\ e.pkt.op = op
IsAttempt(e) == e.kind \in {"send", "sendfail"}

SentData == SelectSeq(trace, LAMBDA e : IsSend(e, kData))
SentAcks == SelectSeq(trace, LAMBDA e : IsSend(e, kAcknowledge))
RecvData == SelectSeq(trace, LAMBDA e : IsRecv(e, kData))
RecvAcks == SelectSeq(trace, LAMBDA e : IsRecv(e, kAcknowledge))
AcceptedData == SelectSeq(trace, LAMBDA e : IsRecv(e, kData) /\ e.acc)

RECURSIVE ConcatData(_)
ConcatData(events) ==
    IF events = <<>> THEN <<>> ELSE Head(events).pkt.data \o ConcatData(Tail(events))

LastOf(seq) == seq[Len(seq)]

\* from entry i + 1 on, the trace holds nothing but attempts to send the
\* error (code, message) to addr, at least one, and a successful one is last
EndsWithError(i, addr, code, message) ==
    /\ Len(trace) > i
    /\ \A j \in (i + 1)..Len(trace) :
          /\ IsAttempt(trace[j])
          /\ trace[j].addr = addr
          /\ trace[j].pkt = CreateError(code, message)
          /\ trace[j].kind = "send" => j = Len(trace)

(***************************************************************************)
(* C1: an RRQ session that completes (the peer acknowledged every block)   *)
(* for a file of L bytes has sent exactly floor(L/512)+1 DATA packets,     *)
(* numbered 1, 2, ...; all but the last carry 512 bytes and the last       *)
(* carries L mod 512 bytes (none when L is a multiple of 512), and each    *)
(* carries the bytes of the file at its place.                             *)
(***************************************************************************)
C1_ReadSendsAllBlocks ==
    (Completed /\ IsRead) =>
        LET L == Len(file_data)
            n == (L \div kMaxDataSize) + 1
        IN  /\ L <= max_transfer_size
            /\ Len(SentData) = n
            /\ \A i \in 1..n :
                  /\ SentData[i].pkt.block = i
                  /\ Len(SentData[i].pkt.data) =
                        IF i < n THEN kMaxDataSize ELSE L % kMaxDataSize
                  /\ SentData[i].addr = client_addr
            /\ ConcatData(SentData) = file_data

\* a file of exactly 512 bytes was sent as DATA(1, 512 bytes), DATA(2, 0 bytes)
C1_Witness ==
    /\ Completed /\ IsRead
    /\ Len(file_data) = kMaxDataSize
    /\ Len(SentData) = 2
    /\ LastOf(SentData).pkt.data = <<>>

(***************************************************************************)
(* C2 as amended: DATA(b+1), b >= 1, is sent (RRQ) or accepted (WRQ) only  *)
(* after ACK(b) was received (RRQ) or sent (WRQ), and the first DATA of a  *)
(* WRQ is accepted only after ACK(0) or the OACK was sent; in a transfer   *)
(* that completes successfully the number of ACKs, not counting the ACK(0) *)
(* that answers a WRQ without options, equals the number of DATA packets,  *)
(* and the final DATA has a payload shorter than 512 bytes.                *)
(***************************************************************************)
Alternates ==
    \A i \in 1..Len(trace) :
        /\ (IsRead /\ IsSend(trace[i], kData) /\ trace[i].pkt.block # 1) =>
              \E j \in 1..(i - 1) :
                  /\ IsRecv(trace[j], kAcknowledge)
                  /\ IncBlock(trace[j].pkt.block) = trace[i].pkt.block
        /\ (IsWrite /\ IsRecv(trace[i], kData) /\ trace[i].acc) =>
              \E j \in 1..(i - 1) :
                  \/ /\ IsSend(trace[j], kAcknowledge)
                     /\ IncBlock(trace[j].pkt.block) = trace[i].pkt.block
                  \/ IsSend(trace[j], kOACK) /\ trace[i].pkt.block = 1

\* the ACK(0) that answers a WRQ without options
InitialAcks == IF IsWrite /\ DOMAIN init_pkt.options = {} THEN 1 ELSE 0

C2_AlternationAmended ==
    /\ Alternates
    /\ (Completed /\ IsRead) =>
          /\ Len(RecvAcks) = Len(SentData)
          /\ Len(LastOf(SentData).pkt.data) < kMaxDataSize
    /\ (Completed /\ IsWrite) =>
          /\ Len(SentAcks) - InitialAcks = Len(RecvData)
          /\ Len(LastOf(RecvData).pkt.data) < kMaxDataSize

\* C2 as stated: in a successful transfer the number of ACKs received (RRQ)
\* or sent (WRQ) equals the number of DATA packets sent or received
C2_Original ==
    /\ Alternates
    /\ (Completed /\ IsRead) =>
          /\ Len(RecvAcks) = Len(SentData)
          /\ Len(LastOf(SentData).pkt.data) < kMaxDataSize
    /\ (Completed /\ IsWrite) =>
          /\ Len(SentAcks) = Len(RecvData)
          /\ Len(LastOf(RecvData).pkt.data) < kMaxDataSize

\* a WRQ without options has completed: ACK(0), DATA(1, 512 bytes), ACK(1),
\* DATA(2, short), ACK(2)
C2_Witness ==
    /\ Completed /\ IsWrite
    /\ DOMAIN init_pkt.options = {}
    /\ Len(RecvData) = 2
    /\ Len(SentAcks) = 3

(***************************************************************************)
(* C3 as stated: a packet of the expected type from the client TID whose   *)
(* block number is not the current block is ignored: the session stays in  *)
(* its wait state and sends nothing in response.                           *)
(***************************************************************************)
ExpectedOp == IF IsRead THEN kAcknowledge ELSE kData

C3_WrongBlockIgnored ==
    (/\ trace # <<>>
     /\ IsRecv(LastOf(trace), ExpectedOp)
     /\ LastOf(trace).addr = client_addr
     /\ ~LastOf(trace).acc)
    => pc \in {"WaitAck", "WaitData"}

(***************************************************************************)
(* C4 as stated: a receive that times out while retries remain (fewer than *)
(* kMaxRetries timeouts so far) makes the session retransmit and stay in   *)
(* its wait state; a timeout ends the session only once the retry budget   *)
(* is exhausted.                                                           *)
(***************************************************************************)
Timeouts == SelectSeq(trace, LAMBDA e : e.kind = "timeout")

C4_TimeoutRetransmits ==
    (/\ trace # <<>>
     /\ LastOf(trace).kind = "timeout"
     /\ Len(Timeouts) < kMaxRetries)
    => pc \in {"WaitAck", "WaitData"}

(***************************************************************************)
(* C5 as stated: a packet received from a TID other than the client TID    *)
(* is not taken as part of the transfer, is answered with one              *)
(* Error(UnknownTransferId) sent to that TID, and leaves the session       *)
(* waiting as before.                                                      *)
(***************************************************************************)
C5_ForeignTidRejected ==
    \A i \in 1..Len(trace) :
        (trace[i].kind = "recv" /\ trace[i].addr # client_addr) =>
            /\ ~trace[i].acc
            /\ Len(trace) > i
            /\ IsAttempt(trace[i + 1])
            /\ trace[i + 1].addr = trace[i].addr
            /\ trace[i + 1].pkt.op = kError
            /\ trace[i + 1].pkt.code = kUnknownTransferId
            /\ (Len(trace) = i + 1 => pc \in {"WaitAck", "WaitData"})

(***************************************************************************)
(* C6 as stated: every packet the session sends is addressed to the client *)
(* TID fixed from the source of the initial request.                       *)
(***************************************************************************)
C6_SendsOnlyToClient ==
    \A i \in 1..Len(trace) :
        (IsAttempt(trace[i]) /\ trace[i].pkt.op \in {kData, kAcknowledge, kOACK})
            => trace[i].addr = client_addr

(***************************************************************************)
(* C7 as stated: the bytes buffered by the session never exceed            *)
(* max_transfer_size, and a DATA block that would take the total over the  *)
(* cap is answered with Error(DiskFull), not with an ACK, and the write    *)
(* callback is not called.                                                 *)
(***************************************************************************)
RECURSIVE TotalBefore(_, _)
\* the payload bytes of the DATA packets accepted in trace[1..i]
TotalBefore(tr, i) ==
    IF i = 0 THEN 0
    ELSE TotalBefore(tr, i - 1)
         + (IF IsRecv(tr[i], kData) /\ tr[i].acc THEN Len(tr[i].pkt.data) ELSE 0)

C7_CapNeverExceeded ==
    /\ Len(file_data) <= max_transfer_size
    /\ \A i \in 1..Len(trace) :
          (IsWrite /\ IsRecv(trace[i], kData)
             /\ trace[i].pkt.block = IncBlock(Len(SelectSeq(SubSeq(trace, 1, i - 1),
                                                   LAMBDA e : IsRecv(e, kData) /\ e.acc)))
             /\ TotalBefore(trace, i - 1) + Len(trace[i].pkt.data) > max_transfer_size)
          => /\ EndsWithError(i, client_addr, kDiskFull, "File size too large")
             /\ write_calls = <<>>

(***************************************************************************)
(* C8 as stated: whatever tsize the WRQ carried, a write session that has  *)
(* entered its receive loop (ACK(0) or the OACK was sent) and whose last   *)
(* accepted DATA was a full block (or that has accepted none) ends only by *)
(* a timeout, a protocol error, a failed send or the max_transfer_size     *)
(* cap.                                                                    *)
(***************************************************************************)
C8_TsizeNeverEnds ==
    (/\ Done /\ IsWrite
     /\ trace # <<>>
     /\ IsSend(trace[1], kAcknowledge) \/ IsSend(trace[1], kOACK)
     /\ AcceptedData # <<>> => Len(LastOf(AcceptedData).pkt.data) = kMaxDataSize)
    => \/ result \in {"DataTimeout", "IllegalOperation", "InvalidBlock", "SendFailed"}
       \/ result = "TooLarge" /\ Len(file_data) > max_transfer_size

(***************************************************************************)
(* C9: in a WRQ session the write callback is called at most once, only    *)
(* after a DATA block shorter than 512 bytes was received, with the        *)
(* payloads of DATA(1), ..., DATA(k) concatenated in block order; it is    *)
(* not called in a session that ends earlier; and when it returns failure  *)
(* the session sends Error(AccessViolation, "File write failed") to the    *)
(* client (nothing else follows the call).                                 *)
(***************************************************************************)
WriteEvents == { i \in 1..Len(trace) : trace[i].kind = "write" }

Recognized == {"blksize", "timeout", "tsize"}

Attempts == SelectSeq(trace, IsAttempt)

C11_FirstPacketByOptions ==
    (Attempts # <<>> /\ Attempts[1].pkt.op # kError) =>
        LET p == Attempts[1].pkt
        IN  IF DOMAIN init_pkt.options \cap Recognized # {} THEN p.op = kOACK
            ELSE IF IsWrite THEN p = CreateAck(0)
            ELSE p.op = kData /\ p.block = 1

(***************************************************************************)
(* C12 as stated: every option name in an OACK the server sends is one of  *)
(* blksize, timeout, tsize.                                                *)
(***************************************************************************)
C12_OackOnlyRecognized ==
    \A i \in 1..Len(trace) :
        (IsAttempt(trace[i]) /\ trace[i].pkt.op = kOACK)
            => DOMAIN trace[i].pkt.options \subseteq Recognized

(***************************************************************************)
(* C13 as stated: in an OACK the blksize value is the client's value when  *)
(* that is an integer in 8..65464 and "512" otherwise, and the timeout     *)
(* value is the client's value when that is an integer in 1..255 and "6"   *)
(* otherwise; a value that is not a well-formed integer is out of range.   *)
(***************************************************************************)
IsInteger(str) == str # <<>> /\ \A i \in 1..Len(str) : IsDigit(str[i])

InRange(str, lo, hi) ==
    IsInteger(str) /\ DigitsValue(str, 0) >= lo /\ DigitsValue(str, 0) <= hi

C13_OackValuesClamped ==
    \A i \in 1..Len(trace) :
        (IsAttempt(trace[i]) /\ trace[i].pkt.op = kOACK) =>
            LET sent == trace[i].pkt.options
                asked == init_pkt.options
            IN  /\ "blksize" \in DOMAIN asked =>
                      /\ "blksize" \in DOMAIN sent
                      /\ sent["blksize"] =
                            IF InRange(asked["blksize"], 8, 65464)
                            THEN asked["blksize"] ELSE <<"5", "1", "2">>
                /\ "timeout" \in DOMAIN asked =>
                      /\ "timeout" \in DOMAIN sent
                      /\ sent["timeout"] =
                            IF InRange(asked["timeout"], 1, 255)
                            THEN asked["timeout"] ELSE <<"6">>

(***************************************************************************)
(* C14 as stated: when the first datagram decodes to a DATA, ACK, ERROR or *)
(* OACK packet, the server replies Error(IllegalOperation) and calls no    *)
(* storage callback, whatever the secure-mode setting.                     *)
(***************************************************************************)
NoStorageCall ==
    /\ write_calls = <<>>
    /\ \A i \in 1..Len(trace) : trace[i].kind \notin {"read", "write"}

C14_NonRequestIsIllegal ==
    (/\ init_pkt.op \in {kData, kAcknowledge, kError, kOACK}
     /\ pc # "Start"
     /\ result # "SocketFailed")
    => /\ Done
       /\ EndsWithError(0, client_addr, kIllegalOperation, "Illegal operation")
       /\ NoStorageCall

(***************************************************************************)
(* C15: with secure mode on, a request whose filename the path check       *)
(* rejects (here: a name with ".." in it) is answered with                 *)
(* Error(AccessViolation, "Access denied"), sent once; nothing else is     *)
(* sent and no storage callback is called.                                 *)
(***************************************************************************)
C15_RejectedPathDenied ==
    (/\ secure_mode
     /\ IsRead \/ IsWrite
     /\ Contains(init_pkt.filename, <<".", ".">>)
     /\ pc # "Start"
     /\ result # "SocketFailed")
    => /\ Done
       /\ EndsWithError(0, client_addr, kAccessViolation, "Access denied")
       /\ NoStorageCall

\* an RRQ for ../s was answered with the one error packet
C15_Witness ==
    /\ secure_mode /\ IsRead /\ Done
    /\ init_pkt.filename = <<".", ".", "/", "s">>
    /\ Len(trace) = 1
    /\ IsSend(trace[1], kError)
    /\ trace[1].pkt.code = kAccessViolation

(***************************************************************************)
(* C16: when the first datagram does not decode, the server sends nothing, *)
(* creates no session socket and calls no storage callback.                *)
(***************************************************************************)
C16_UndecodableIsDropped ==
    (init_pkt = NoPacket /\ pc # "Start") =>
        /\ Done
        /\ trace = <<>>
        /\ ~sock_created
        /\ ~sock_open
        /\ write_calls = <<>>

\* the worker has returned from HandleClient for such a datagram
C16_Witness == init_pkt = NoPacket /\ Done /\ result = "InvalidPacket"

(***************************************************************************)
(* C17: when the read callback of an RRQ fails the session sends           *)
(* Error(FileNotFound) and ends without sending a DATA packet; when it     *)
(* returns more than max_transfer_size bytes the session sends             *)
(* Error(DiskFull) and sends no DATA either.                               *)
(***************************************************************************)
C17_ReadErrors ==
    \A i \in 1..Len(trace) :
        trace[i].kind = "read" =>
            /\ ~trace[i].acc =>
                  /\ Done
                  /\ EndsWithError(i, client_addr, kFileNotFound, "File not found")
            /\ (trace[i].acc /\ Len(trace[i].pkt.data) > max_transfer_size) =>
                  /\ Done
                  /\ EndsWithError(i, client_addr, kDiskFull, "File size too large")

\* a file one byte over the limit was read and the error went out
C17_Witness ==
    /\ IsRead /\ Done
    /\ trace # <<>>
    /\ trace[1].kind = "read" /\ trace[1].acc
    /\ Len(trace[1].pkt.data) = max_transfer_size + 1
    /\ IsSend(LastOf(trace), kError)
    /\ LastOf(trace).pkt.code = kDiskFull

(***************************************************************************)
(* C18: IsRunning is true exactly when the running flag is set, the main   *)
(* socket is open and the dispatcher thread is live; between calls it is   *)
(* false before the first Start, what the last Start returned after a      *)
(* Start, and false after a Stop.                                          *)
(***************************************************************************)
DispatcherLive == loop_pc \notin {"none", "exited"}

C18_IsRunningTellsState ==
    /\ IsRunning <=> (running_ /\ sockfd_ = "open" /\ DispatcherLive)
    /\ api_pc = "idle" =>
          CASE last_call = "none" -> ~IsRunning
            [] last_call = "Start" -> IsRunning = last_ret
            [] last_call = "Stop" -> ~IsRunning

\* a Start has returned true, a datagram has arrived since and a worker runs
\* its session
C18_Witness ==
    /\ api_pc = "idle" /\ last_call = "Start" /\ last_ret
    /\ IsRunning
    /\ \E w \in Workers : workers_[w] = "run"

(***************************************************************************)
(* C19: a Stop called on a server that is not running changes nothing of   *)
(* the server, and when a Stop has returned the flag is down, the main     *)
(* socket is closed, the dispatcher thread has exited and was joined, and  *)
(* the pool is gone with all its workers exited: no session runs.          *)
(***************************************************************************)
Stopped ==
    /\ ~running_
    /\ sockfd_ # "open"
    /\ ~DispatcherLive
    /\ server_thread_ = "none"
    /\ ~thread_pool_
    /\ tasks_ = 0
    /\ \A w \in Workers : workers_[w] = "none"

StopOfStoppedIsNoop ==
    (Stop /\ ~running_) =>
        UNCHANGED <<running_, sockfd_, server_thread_, thread_pool_, thread_pool_mutex_,
                    stopping_, tasks_, workers_, loop_pc>>

C19_StopIdempotent ==
    /\ []((api_pc = "idle" /\ last_call = "Stop") => Stopped)
    /\ [][StopOfStoppedIsNoop]_vars

\* a Stop of a running server has returned: its dispatcher thread has exited
C19_Witness ==
    /\ api_pc = "idle" /\ last_call = "Stop"
    /\ loop_pc = "exited"

(***************************************************************************)
(* C20 as stated: a Stop called on a running server eventually returns,    *)
(* whether or not another datagram arrives on the main socket.             *)
(***************************************************************************)
C20_StopReturns == (api_pc # "idle") ~> (api_pc = "idle")

(***************************************************************************)
(* The setters of TftpServer.  Each validates its argument and throws      *)
(* TftpException before anything is assigned, or hands the argument to the *)
(* setter of TftpServerImpl, which is one assignment.                      *)
(***************************************************************************)
kMinTimeout == 1
kMaxTimeout == 3600
kMaxTransferSize == 1024 * 1024 * 1024

\* validation::ValidateCallback: static_cast<bool>(callback)
ValidateCallback(callback) == callback # "null"

ValidateTimeout(timeout_seconds) ==
    IF timeout_seconds < kMinTimeout THEN FALSE
    ELSE IF timeout_seconds > kMaxTimeout THEN FALSE
    ELSE TRUE

ValidateTransferSize_NoUpperBound(size) == size >= kMinTransferSize

ValidateTransferSize(size) ==
    IF size < kMinTransferSize THEN FALSE
    ELSE IF size > kMaxTransferSize THEN FALSE
    ELSE TRUE

\* the arguments the setters are called with
CallbackArgs == {"null", "cb1", "cb2"}
SizeArgs == {0, kMinTransferSize - 1, kMinTransferSize, 2 * kMinTransferSize,
             kMaxTransferSize, kMaxTransferSize + 1}
TimeoutArgs == {-1, 0, kMinTimeout, 30, kMaxTimeout, kMaxTimeout + 1}

\* the five configuration values of the server object
Config ==
    [secure_mode_ |-> secure_mode,
     max_transfer_size_ |-> max_transfer_size,
     timeout_seconds_ |-> timeout_seconds_,
     read_callback_ |-> read_callback_,
     write_callback_ |-> write_callback_]

\* a setter returns, normally or by throwing TftpException
Called(name, arg, threw) ==
    last_setter' = [name |-> name, arg |-> arg, threw |-> threw, before |-> Config]

SetReadCallback(callback) ==
    /\ IF ~ValidateCallback(callback)
       THEN /\ Called("SetReadCallback", callback, TRUE)
            /\ UNCHANGED read_callback_
       ELSE /\ Called("SetReadCallback", callback, FALSE)
            /\ read_callback_' = callback
    /\ UNCHANGED <<secure_mode, max_transfer_size, timeout_seconds_, write_callback_>>

SetWriteCallback(callback) ==
    /\ IF ~ValidateCallback(callback)
       THEN /\ Called("SetWriteCallback", callback, TRUE)
            /\ UNCHANGED write_callback_
       ELSE /\ Called("SetWriteCallback", callback, FALSE)
            /\ write_callback_' = callback
    /\ UNCHANGED <<secure_mode, max_transfer_size, timeout_seconds_, read_callback_>>

SetSecureMode(secure) ==
    /\ Called("SetSecureMode", secure, FALSE)
    /\ secure_mode' = secure
    /\ UNCHANGED <<max_transfer_size, timeout_seconds_, read_callback_, write_callback_>>

SetMaxTransferSize(size) ==
    /\ IF ~ValidateTransferSize(size)
       THEN /\ Called("SetMaxTransferSize", size, TRUE)
            /\ UNCHANGED max_transfer_size
       ELSE /\ Called("SetMaxTransferSize", size, FALSE)
            /\ max_transfer_size' = size
    /\ UNCHANGED <<secure_mode, timeout_seconds_, read_callback_, write_callback_>>

SetTimeout(seconds) ==
    /\ IF ~ValidateTimeout(seconds)
       THEN /\ Called("SetTimeout", seconds, TRUE)
            /\ UNCHANGED timeout_seconds_
       ELSE /\ Called("SetTimeout", seconds, FALSE)
            /\ timeout_seconds_' = seconds
    /\ UNCHANGED <<secure_mode, max_transfer_size, read_callback_, write_callback_>>

\* what a setter leaves alone
ConfigFrame ==
    UNCHANGED <<init_pkt, client_addr, pc, result, sock_open, sock_created,
                file_data, offset, block_number, expected_block,
                has_expected_size, expected_file_size, trace, write_calls,
                server_vars, codec_vars, path_vars, pool_vars, rest_vars>>

\* the server object as its constructor leaves it
ConfigInit ==
    /\ secure_mode = TRUE
    /\ max_transfer_size = 1024 * 1024 * 1024
    /\ HandlerIdle
    /\ Constructed
    /\ close_wakes = FALSE
    /\ OthersIdle

ConfigNext ==
    \/ \E callback \in CallbackArgs : SetReadCallback(callback) /\ ConfigFrame
    \/ \E callback \in CallbackArgs : SetWriteCallback(callback) /\ ConfigFrame
    \/ \E secure \in BOOLEAN : SetSecureMode(secure) /\ ConfigFrame
    \/ \E size \in SizeArgs : SetMaxTransferSize(size) /\ ConfigFrame
    \/ \E seconds \in TimeoutArgs : SetTimeout(seconds) /\ ConfigFrame

ConfigSpec == ConfigInit /\ [][ConfigNext]_vars

\* the argument of the last setter call is one the interface forbids
InvalidArgument ==
    \/ /\ last_setter.name \in {"SetReadCallback", "SetWriteCallback"}
       /\ last_setter.arg = "null"
    \/ /\ last_setter.name = "SetMaxTransferSize"
       /\ ~(512 <= last_setter.arg /\ last_setter.arg <= 1024 * 1024 * 1024)
    \/ /\ last_setter.name = "SetTimeout"
       /\ ~(1 <= last_setter.arg /\ last_setter.arg <= 3600)

\* the configuration before the last call, with the value that call names
\* replaced by its argument
WithArgument ==
    LET b == last_setter.before
        a == last_setter.arg
    IN  CASE last_setter.name = "SetReadCallback" -> [b EXCEPT !.read_callback_ = a]
          [] last_setter.name = "SetWriteCallback" -> [b EXCEPT !.write_callback_ = a]
          [] last_setter.name = "SetSecureMode" -> [b EXCEPT !.secure_mode_ = a]
          [] last_setter.name = "SetMaxTransferSize" -> [b EXCEPT !.max_transfer_size_ = a]
          [] last_setter.name = "SetTimeout" -> [b EXCEPT !.timeout_seconds_ = a]

\* C21: a setter called with a null callback, a max transfer size outside
\* 512..1 GiB or a timeout outside 1..3600 throws and leaves all five
\* configuration values as they were; a setter called with a valid argument
\* returns normally and changes the value it names to the argument, and no
\* other value.
C21_SettersValidate ==
    last_setter.name # "none" =>
        IF InvalidArgument
        THEN last_setter.threw /\ Config = last_setter.before
        ELSE ~last_setter.threw /\ Config = WithArgument

\* a size one above 1 GiB was refused after the timeout had been set to 3600
C21_Witness ==
    /\ last_setter.name = "SetMaxTransferSize"
    /\ last_setter.arg = kMaxTransferSize + 1
    /\ last_setter.threw
    /\ last_setter.before.timeout_seconds_ = kMaxTimeout
    /\ max_transfer_size = kMaxTransferSize

(***************************************************************************)
(* The packet codec: TftpPacket::Serialize and TftpPacket::Deserialize on  *)
(* sequences of bytes.                                                     *)
(***************************************************************************)
kMinPacketSize == 4
kMaxPacketSize == 516
kMaxFilenameLength == 255
kMaxOptionNameLength == 64
kMaxOptionValueLength == 64
kMaxErrorMessageLength == 255
kMaxStringLength == 255
kMaxOptionsCount == 16
kNoSuchUser == 7

\* the characters of the mode names
NetAsciiStr == <<110, 101, 116, 97, 115, 99, 105, 105>>
OctetStr == <<111, 99, 116, 101, 116>>
MailStr == <<109, 97, 105, 108>>

\* std::tolower in the "C" locale
ToLower(c) == IF 65 <= c /\ c <= 90 THEN c + 32 ELSE c

mode_to_string(mode) ==
    CASE mode = "kNetAscii" -> NetAsciiStr
      [] mode = "kOctet" -> OctetStr
      [] mode = "kMail" -> MailStr

\* string_to_mode; "throw" stands for the TftpException
string_to_mode(mode_str) ==
    LET lower_mode == [i \in 1..Len(mode_str) |-> ToLower(mode_str[i])]
    IN  IF lower_mode = NetAsciiStr THEN "kNetAscii"
        ELSE IF lower_mode = OctetStr THEN "kOctet"
        ELSE IF lower_mode = MailStr THEN "kMail"
        ELSE "throw"

\* htons and memcpy of a uint16_t: the bytes in network order
U16(v) == <<(v \div 256) % 256, v % 256>>

\* memcpy and ntohs of the two bytes at a 0-based offsetition
ReadU16(data, at) == data[at + 1] * 256 + data[at + 2]

\* copy_string: the characters and a terminating 0
copy_string(src) == src \o <<0>>

\* options_[option_name] = option_value
SetOption(options, option_name, option_value) ==
    [n \in DOMAIN options \cup {option_name} |->
        IF n = option_name THEN option_value ELSE options[n]]

\* an order in which "for (const auto& option : options_)" visits the map
RECURSIVE OptionOrder(_)
OptionOrder(names) ==
    IF names = {} THEN <<>>
    ELSE LET n == CHOOSE n \in names : TRUE
         IN  <<n>> \o OptionOrder(names \ {n})

Reverse(seq) == [i \in 1..Len(seq) |-> seq[Len(seq) + 1 - i]]

\* the two iteration orders of the model
OptionOrders(options) ==
    {OptionOrder(DOMAIN options), Reverse(OptionOrder(DOMAIN options))}

RECURSIVE SerializeOptions(_, _)
SerializeOptions(options, order) ==
    IF order = <<>> THEN <<>>
    ELSE copy_string(Head(order)) \o copy_string(options[Head(order)])
            \o SerializeOptions(options, Tail(order))

\* TftpPacket::Serialize, with the order in which the options are visited
Serialize(p, order) ==
    CASE p.op_code_ \in {kReadRequest, kWriteRequest} ->
            U16(p.op_code_) \o copy_string(p.filename_)
                \o copy_string(mode_to_string(p.mode_))
                \o SerializeOptions(p.options_, order)
      [] p.op_code_ = kData -> U16(p.op_code_) \o U16(p.block_number_) \o p.data_
      [] p.op_code_ = kAcknowledge -> U16(p.op_code_) \o U16(p.block_number_)
      [] p.op_code_ = kError ->
            U16(p.op_code_) \o U16(p.error_code_) \o copy_string(p.error_message_)
      [] p.op_code_ = kOACK -> U16(p.op_code_) \o SerializeOptions(p.options_, order)
      [] OTHER -> <<>>

\* read_string_validated failed: offset = SIZE_MAX
ReadFailed == [ok |-> FALSE, str |-> <<>>, pos |-> 0]

\* the loop of read_string_validated: the number of characters it reads
\* before it meets a 0, the end of the data or max_length
CharsRead(data, pos, max_length) ==
    LET limit == Min(max_length, Len(data) - pos)
        zeros == {n \in 0..(limit - 1) : data[pos + n + 1] = 0}
    IN  IF zeros = {} THEN limit
        ELSE CHOOSE n \in zeros : \A m \in zeros : n <= m

\* read_string_validated: the string at a 0-based offset and the new pos
read_string_validated(data, pos, max_length) ==
    IF pos >= Len(data) THEN ReadFailed
    ELSE LET chars_read == CharsRead(data, pos, max_length)
             end == pos + chars_read
         IN  IF end >= Len(data) THEN ReadFailed
             ELSE IF chars_read >= max_length /\ data[end + 1] # 0 THEN ReadFailed
             ELSE [ok |-> TRUE,
                   str |-> SubSeq(data, pos + 1, end),
                   pos |-> IF data[end + 1] = 0 THEN end + 1 ELSE end]

TooManyOptions_Never(options_count, pos, size) == FALSE

\* the test after the option loop
TooManyOptions(options_count, pos, size) ==
    options_count >= kMaxOptionsCount /\ pos < size

OptionsFailed == [ok |-> FALSE, options |-> <<>>]

\* the option loop of Deserialize (requests and OACK) and the test after it
RECURSIVE ReadOptions(_, _, _, _)
ReadOptions(data, pos, temp_options, options_count) ==
    LET done == IF TooManyOptions(options_count, pos, Len(data))
                THEN OptionsFailed
                ELSE [ok |-> TRUE, options |-> temp_options]
    IN  IF pos < Len(data) /\ options_count < kMaxOptionsCount
        THEN LET name == read_string_validated(data, pos, kMaxOptionNameLength)
                 value == read_string_validated(data, name.pos, kMaxOptionValueLength)
             IN  IF ~name.ok THEN OptionsFailed
                 ELSE IF name.str = <<>>
                 THEN IF TooManyOptions(options_count, name.pos, Len(data))
                      THEN OptionsFailed
                      ELSE [ok |-> TRUE, options |-> temp_options]
                 ELSE IF name.pos >= Len(data) THEN OptionsFailed
                 ELSE IF ~value.ok THEN OptionsFailed
                 ELSE IF value.str = <<>> THEN OptionsFailed
                 ELSE ReadOptions(data, value.pos,
                                  SetOption(temp_options, name.str, value.str),
                                  options_count + 1)
        ELSE done

\* what Deserialize returns and what it leaves in the object
Decoded(ok, p) == [ok |-> ok, packet |-> p]

\* case kReadRequest / kWriteRequest
DeserializeRequest(data, p) ==
    LET temp_filename == read_string_validated(data, 2, kMaxFilenameLength)
        mode_str == read_string_validated(data, temp_filename.pos, kMaxStringLength)
        temp_mode == string_to_mode(mode_str.str)
        temp_options == ReadOptions(data, mode_str.pos, <<>>, 0)
    IN  IF ~temp_filename.ok THEN Decoded(FALSE, p)
        ELSE IF temp_filename.str = <<>> THEN Decoded(FALSE, p)
        ELSE IF temp_filename.pos >= Len(data) THEN Decoded(FALSE, p)
        ELSE IF ~mode_str.ok THEN Decoded(FALSE, p)
        ELSE IF mode_str.str = <<>> THEN Decoded(FALSE, p)
        ELSE IF temp_mode = "throw" THEN Decoded(FALSE, p)
        ELSE IF ~temp_options.ok THEN Decoded(FALSE, p)
        ELSE Decoded(TRUE, [p EXCEPT !.filename_ = temp_filename.str,
                                     !.mode_ = temp_mode,
                                     !.options_ = temp_options.options])

\* case kData
DeserializeData(data, p) ==
    LET q == [p EXCEPT !.block_number_ = ReadU16(data, 2)]
    IN  IF Len(data) < 4 THEN Decoded(FALSE, p)
        ELSE IF Len(data) - 4 > kMaxDataSize THEN Decoded(FALSE, q)
        ELSE Decoded(TRUE, [q EXCEPT !.data_ = SubSeq(data, 5, Len(data))])

\* case kAcknowledge
DeserializeAck(data, p) ==
    IF Len(data) # 4 THEN Decoded(FALSE, p)
    ELSE Decoded(TRUE, [p EXCEPT !.block_number_ = ReadU16(data, 2)])

\* case kError
DeserializeError(data, p) ==
    LET error_code_value == ReadU16(data, 2)
        temp_error_message == read_string_validated(data, 4, kMaxErrorMessageLength)
    IN  IF Len(data) < 5 THEN Decoded(FALSE, p)
        ELSE IF error_code_value > 7 THEN Decoded(FALSE, p)
        ELSE IF ~temp_error_message.ok THEN Decoded(FALSE, p)
        ELSE Decoded(TRUE, [p EXCEPT !.error_code_ = error_code_value,
                                     !.error_message_ = temp_error_message.str])

\* case kOACK
DeserializeOACK(data, p) ==
    LET temp_oack_options == ReadOptions(data, 2, <<>>, 0)
    IN  IF ~temp_oack_options.ok THEN Decoded(FALSE, p)
        ELSE Decoded(TRUE, [p EXCEPT !.options_ = temp_oack_options.options])

\* TftpPacket::Deserialize: ResetState, the size checks, the opcode stored in
\* op_code_ and then tested, and the case of the opcode
Deserialize(data) ==
    IF data = <<>> THEN Decoded(FALSE, ResetState)
    ELSE IF Len(data) < kMinPacketSize \/ Len(data) > kMaxPacketSize
    THEN Decoded(FALSE, ResetState)
    ELSE LET p == [ResetState EXCEPT !.op_code_ = ReadU16(data, 0)]
         IN  IF p.op_code_ < 1 \/ p.op_code_ > 6 THEN Decoded(FALSE, p)
             ELSE CASE p.op_code_ \in {kReadRequest, kWriteRequest} ->
                          DeserializeRequest(data, p)
                    [] p.op_code_ = kData -> DeserializeData(data, p)
                    [] p.op_code_ = kAcknowledge -> DeserializeAck(data, p)
                    [] p.op_code_ = kError -> DeserializeError(data, p)
                    [] p.op_code_ = kOACK -> DeserializeOACK(data, p)

\* the factories; SetOption calls are the options_ given to WithOptions
CreateReadRequest(filename, mode) ==
    [ResetState EXCEPT !.op_code_ = kReadRequest, !.filename_ = filename, !.mode_ = mode]

CreateWriteRequest(filename, mode) ==
    [ResetState EXCEPT !.op_code_ = kWriteRequest, !.filename_ = filename, !.mode_ = mode]

DataPacket(block, data) ==
    [ResetState EXCEPT !.op_code_ = kData, !.block_number_ = block, !.data_ = data]

AckPacket(block) ==
    [ResetState EXCEPT !.op_code_ = kAcknowledge, !.block_number_ = block]

ErrorPacket(code, message) ==
    [ResetState EXCEPT !.op_code_ = kError, !.error_code_ = code,
                       !.error_message_ = message]

OackPacket(options) == [ResetState EXCEPT !.op_code_ = kOACK, !.options_ = options]

WithOptions(p, options) == [p EXCEPT !.options_ = options]

\* k short options with different names: o01 = v01, o02 = v02, ...
OptName(i) == <<111, 48 + (i \div 10), 48 + (i % 10)>>
OptValue(i) == <<118, 48 + (i \div 10), 48 + (i % 10)>>
ShortOptions(k) == [n \in {OptName(i) : i \in 1..k} |-> <<118>> \o Tail(n)]

\* k options whose names and values have the greatest length allowed
LongName(i) == Fill(kMaxOptionNameLength - 1, 97) \o <<64 + i>>
LongOptions(k) ==
    [n \in {LongName(i) : i \in 1..k} |-> Fill(kMaxOptionValueLength, 98)]

\* k option pairs as they are on the wire
RECURSIVE PairsBytes(_)
PairsBytes(k) ==
    IF k = 0 THEN <<>>
    ELSE PairsBytes(k - 1) \o copy_string(OptName(k)) \o copy_string(OptValue(k))

FileF == <<102>>
LongFilename == Fill(kMaxFilenameLength, 102)

\* packets whose strings have no NUL and are within their maxima, with at
\* most 16 options and at most 512 bytes of data
WellFormedPackets ==
    {CreateReadRequest(FileF, "kOctet"),
     CreateReadRequest(FileF, "kMail"),
     CreateWriteRequest(FileF, "kNetAscii"),
     CreateReadRequest(LongFilename, "kOctet"),
     WithOptions(CreateWriteRequest(FileF, "kOctet"), ShortOptions(1)),
     WithOptions(CreateWriteRequest(FileF, "kOctet"), ShortOptions(2)),
     WithOptions(CreateReadRequest(FileF, "kOctet"), ShortOptions(kMaxOptionsCount)),
     WithOptions(CreateWriteRequest(FileF, "kOctet"), LongOptions(1)),
     WithOptions(CreateWriteRequest(LongFilename, "kOctet"), LongOptions(1)),
     WithOptions(CreateWriteRequest(LongFilename, "kOctet"), LongOptions(2)),
     WithOptions(CreateReadRequest(LongFilename, "kNetAscii"),
                 LongOptions(kMaxOptionsCount)),
     DataPacket(0, <<>>),
     DataPacket(1, Fill(kMaxDataSize, 65)),
     DataPacket(BlockModulus - 1, <<0, 255>>),
     AckPacket(0),
     AckPacket(BlockModulus - 1),
     ErrorPacket(kNotDefined, <<>>),
     ErrorPacket(kFileNotFound, <<120>>),
     ErrorPacket(kNoSuchUser, Fill(kMaxErrorMessageLength, 120)),
     OackPacket(<<>>),
     OackPacket(ShortOptions(1)),
     OackPacket(ShortOptions(kMaxOptionsCount)),
     OackPacket(LongOptions(3)),
     OackPacket(LongOptions(kMaxOptionsCount))}

\* "f" and a mode, as a request carries them
RequestHead == copy_string(FileF) \o copy_string(OctetStr)

\* what follows the two bytes of the opcode in the datagrams of the model
Bodies ==
    {<<0, 0>>, <<0, 1>>, <<0, 1, 0>>, <<0, 8, 0>>, <<0, 1, 65>>, <<0, 7, 65, 0>>,
     <<0, 1, 65, 0, 66>>, <<1, 0, 0>>, <<255, 255, 0>>,
     <<0, 1>> \o copy_string(Fill(kMaxErrorMessageLength, 65)),
     <<0, 1>> \o copy_string(Fill(kMaxErrorMessageLength + 1, 65)),
     RequestHead,
     copy_string(FileF) \o copy_string(<<79, 67, 84, 69, 84>>),
     copy_string(FileF) \o copy_string(MailStr),
     copy_string(FileF) \o copy_string(NetAsciiStr),
     copy_string(FileF) \o copy_string(<<98, 97, 100>>),
     copy_string(FileF) \o OctetStr,
     copy_string(<<>>) \o copy_string(OctetStr),
     copy_string(FileF) \o copy_string(<<>>),
     copy_string(FileF),
     RequestHead \o copy_string(<<97>>),
     RequestHead \o copy_string(<<97>>) \o copy_string(<<>>),
     RequestHead \o <<0, 120>>,
     RequestHead \o copy_string(<<97>>) \o copy_string(<<49>>)
                 \o copy_string(<<97>>) \o copy_string(<<50>>),
     RequestHead \o copy_string(Fill(kMaxOptionNameLength, 97))
                 \o copy_string(Fill(kMaxOptionValueLength, 98)),
     RequestHead \o copy_string(Fill(kMaxOptionNameLength + 1, 97))
                 \o copy_string(<<49>>),
     RequestHead \o copy_string(<<97>>)
                 \o copy_string(Fill(kMaxOptionValueLength + 1, 98)),
     copy_string(LongFilename) \o copy_string(OctetStr),
     copy_string(Fill(kMaxFilenameLength + 1, 102)) \o copy_string(OctetStr),
     copy_string(<<97>>),
     Fill(kMaxDataSize, 65),
     Fill(kMaxDataSize + 1, 65)}
    \cup {PairsBytes(k) : k \in 1..2}
    \cup {PairsBytes(k) : k \in (kMaxOptionsCount - 1)..(kMaxOptionsCount + 2)}
    \cup {RequestHead \o PairsBytes(k) :
            k \in {1} \cup (kMaxOptionsCount - 1)..(kMaxOptionsCount + 2)}

\* the datagrams handed to Deserialize: each body under every opcode 0..7
\* and under 257, and buffers too short to hold a packet
Datagrams ==
    {U16(op) \o body : op \in (0..7) \cup {257}, body \in Bodies}
    \cup {<<>>, <<0>>, <<0, 3>>, <<0, 3, 0>>}

\* nothing is being encoded or decoded
Quiet == codec_pc \in {"idle", "decoded", "redecoded"}

\* a packet is made by a factory and SetOption
Build(p) ==
    /\ Quiet
    /\ packet_' = p
    /\ codec_pc' = "built"
    /\ wire' = <<>>
    /\ codec_ret' = FALSE
    /\ original' = ResetState
    /\ from_wire' = FALSE

\* wire = packet_.Serialize(), of a packet that was built or decoded
SerializeStep ==
    /\ codec_pc = "built" \/ (codec_pc = "decoded" /\ codec_ret)
    /\ \E order \in OptionOrders(packet_.options_) :
          wire' = Serialize(packet_, order)
    /\ original' = packet_
    /\ from_wire' = (codec_pc = "decoded")
    /\ codec_pc' = "serialized"
    /\ UNCHANGED <<packet_, codec_ret>>

\* a datagram arrives; the object holds what it held
Receive(b) ==
    /\ Quiet
    /\ wire' = b
    /\ codec_pc' = "received"
    /\ codec_ret' = FALSE
    /\ original' = ResetState
    /\ from_wire' = FALSE
    /\ UNCHANGED packet_

\* codec_ret = packet_.Deserialize(wire)
DeserializeStep ==
    /\ codec_pc \in {"serialized", "received"}
    /\ LET r == Deserialize(wire)
       IN  /\ packet_' = r.packet
           /\ codec_ret' = r.ok
    /\ codec_pc' = IF codec_pc = "serialized" THEN "redecoded" ELSE "decoded"
    /\ UNCHANGED <<wire, original, from_wire>>

CodecFrame ==
    UNCHANGED <<session_vars, server_vars, config_vars, path_vars, pool_vars, rest_vars>>

\* no server is running
ServerIdle ==
    /\ secure_mode = TRUE
    /\ max_transfer_size = kMaxTransferSize
    /\ HandlerIdle
    /\ Constructed
    /\ close_wakes = FALSE

CodecInit == ServerIdle /\ OthersIdle

CodecNext ==
    \/ \E p \in WellFormedPackets : Build(p) /\ CodecFrame
    \/ SerializeStep /\ CodecFrame
    \/ \E b \in Datagrams : Receive(b) /\ CodecFrame
    \/ DeserializeStep /\ CodecFrame

CodecSpec == CodecInit /\ [][CodecNext]_vars

\* C22: whenever Deserialize returns false, every field of the object has
\* its default (opcode ReadRequest, block 0, error code NotDefined, empty
\* filename, mode Octet, empty data, empty error message, no options),
\* whatever the object held before and however far parsing got.
C22_FailureLeavesDefaults ==
    (codec_pc \in {"decoded", "redecoded"} /\ ~codec_ret) => packet_ = ResetState

\* C23: for every well-formed packet p made by the factories (strings
\* without NUL and within their maxima, at most 16 options, at most 512
\* bytes of data; an OACK with no options and a request with every field at
\* its maximum included), Deserialize(Serialize(p)) returns true and leaves
\* a packet equal to p.
C23_RoundTrip ==
    (codec_pc = "redecoded" /\ ~from_wire) => (codec_ret /\ packet_ = original)

\* C24: for every datagram b of 4..516 bytes, if Deserialize(b) returns true
\* and gives p, then Deserialize(Serialize(p)) returns true and gives a
\* packet equal to p.
C24_DecodedRoundTrips ==
    (codec_pc = "redecoded" /\ from_wire) => (codec_ret /\ packet_ = original)

\* a request or an OACK that carries the option pairs o01=v01 .. ok=vk
OptionsDatagram(op, k) ==
    U16(op) \o (IF op = kOACK THEN <<>> ELSE RequestHead) \o PairsBytes(k)

\* C25: a request or OACK with exactly 16 well-formed option pairs is
\* accepted with all 16 options, one with 17 or 18 pairs is rejected, and so
\* none is accepted with only its first 16 options kept.
C25_SixteenOptionsAtMost ==
    \A op \in {kReadRequest, kWriteRequest, kOACK}, k \in 15..18 :
        (codec_pc = "decoded" /\ wire = OptionsDatagram(op, k)) =>
            /\ k <= 16 => (codec_ret /\ packet_.options_ = ShortOptions(k))
            /\ k >= 17 => (~codec_ret /\ packet_.options_ # ShortOptions(16))

\* a write request with 17 option pairs was rejected
C25_Witness ==
    /\ codec_pc = "decoded"
    /\ wire = OptionsDatagram(kWriteRequest, 17)
    /\ ~codec_ret

(***************************************************************************)
(* util::IsPathSecure with its canonicalization, on a POSIX file system.   *)
(* A string is a sequence of characters: "NUL", "HT", "LF" and "DEL" stand *)
(* for the bytes 0x00, 0x09, 0x0A and 0x7F.  A std::filesystem::path is    *)
(* the sequence of its components, each a string.                          *)
(***************************************************************************)
\* how many symbolic links a resolution follows before it fails with ELOOP
SymlinkLimit == 3

\* the components of a string: what lies between its separators
RECURSIVE SplitFrom(_, _)
SplitFrom(s, start) ==
    LET seps == {i \in start..Len(s) : s[i] = "/"}
        first == CHOOSE i \in seps : \A j \in seps : i <= j
    IN  IF start > Len(s) THEN <<>>
        ELSE IF seps = {} THEN <<SubSeq(s, start, Len(s))>>
        ELSE IF first = start THEN SplitFrom(s, start + 1)
        ELSE <<SubSeq(s, start, first - 1)>> \o SplitFrom(s, first + 1)

Split(s) == SplitFrom(s, 1)

\* path::string() of an absolute path
RECURSIVE PathString(_)
PathString(components) ==
    IF components = <<>> THEN <<"/">>
    ELSE IF Len(components) = 1 THEN <<"/">> \o components[1]
    ELSE PathString(SubSeq(components, 1, Len(components) - 1))
            \o <<"/">> \o components[Len(components)]

\* std::filesystem::current_path()
CurrentPath == <<<<"c">>>>

\* std::filesystem::absolute
Absolute(str) == IF Head(str) = "/" THEN Split(str) ELSE CurrentPath \o Split(str)

\* operator/ of an absolute path and a string
Slash(root_path, str) ==
    IF str # <<>> /\ Head(str) = "/" THEN Split(str) ELSE root_path \o Split(str)

\* a canonicalization that threw filesystem_error
Raised == [ok |-> FALSE, path |-> <<>>]

\* weakly_canonical: the components are resolved from the left, a symbolic
\* link is replaced by its target, "." is dropped and ".." removes the
\* component before it; names that do not exist are kept as they are
RECURSIVE Resolve(_, _, _, _)
Resolve(done, rest, links, fuel) ==
    IF rest = <<>> THEN [ok |-> TRUE, path |-> done]
    ELSE LET c == Head(rest)
             next == Append(done, c)
         IN  IF c = <<".">> THEN Resolve(done, Tail(rest), links, fuel)
             ELSE IF c = <<".", ".">>
             THEN Resolve(SubSeq(done, 1, Len(done) - 1), Tail(rest), links, fuel)
             ELSE IF next \in DOMAIN links
             THEN IF fuel = 0 THEN Raised
                  ELSE Resolve(<<>>, links[next] \o Tail(rest), links, fuel - 1)
             ELSE Resolve(next, Tail(rest), links, fuel)

WeaklyCanonical(components, links) == Resolve(<<>>, components, links, SymlinkLimit)

\* the number of leading components two paths share
RECURSIVE CommonPrefix(_, _)
CommonPrefix(a, b) ==
    IF a = <<>> \/ b = <<>> \/ Head(a) # Head(b) THEN 0
    ELSE 1 + CommonPrefix(Tail(a), Tail(b))

\* path::string() of a relative path
RECURSIVE RelativeString(_)
RelativeString(components) ==
    IF components = <<>> THEN <<".">>
    ELSE IF Len(components) = 1 THEN components[1]
    ELSE components[1] \o <<"/">> \o RelativeString(Tail(components))

\* std::filesystem::relative of two canonical paths, as a string
Relative(target, base) ==
    LET k == CommonPrefix(target, base)
    IN  RelativeString([i \in 1..(Len(base) - k) |-> <<".", ".">>]
                        \o SubSeq(target, k + 1, Len(target)))

\* the trailing separator added to canonical_root_str
WithSeparator(str) == IF str # <<>> /\ str[Len(str)] # "/" THEN str \o <<"/">> ELSE str

Contained_Unchecked(canonical_target, canonical_root) == TRUE

\* is_within_root and the test of the relative portion
Contained(canonical_target, canonical_root) ==
    LET canonical_root_str == WithSeparator(PathString(canonical_root))
        canonical_target_str == PathString(canonical_target)
        is_within_root ==
            /\ Len(canonical_target_str) >= Len(canonical_root_str)
            /\ SubSeq(canonical_target_str, 1, Len(canonical_root_str)) = canonical_root_str
        relative_str == Relative(canonical_target, canonical_root)
    IN  IF ~is_within_root THEN FALSE
        ELSE IF Contains(relative_str, <<".", ".">>) THEN FALSE
        ELSE TRUE

\* util::IsPathSecure(path, root_dir) on a file system with the given links:
\* what it returns and whether std::filesystem threw
IsPathSecureUnder(path, root_dir, links) ==
    IF path = <<>> \/ root_dir = <<>> THEN [ret |-> FALSE, raised |-> FALSE]
    ELSE IF ~IsPathSecure(path) THEN [ret |-> FALSE, raised |-> FALSE]
    ELSE LET root_path == Absolute(root_dir)
             target_path == Slash(root_path, path)
             canonical_root == WeaklyCanonical(root_path, links)
             canonical_target == WeaklyCanonical(target_path, links)
         IN  IF ~canonical_root.ok \/ ~canonical_target.ok
             THEN [ret |-> FALSE, raised |-> TRUE]
             ELSE [ret |-> Contained(canonical_target.path, canonical_root.path),
                   raised |-> FALSE]

\* the names asked for
RequestedNames ==
    {<<>>, <<"f">>, <<"a", "/", "f">>, <<"l", "/", "f">>, <<"i", "/", "f">>,
     <<"o", "/", "f">>, <<"p", "/", "f">>, <<"d", "/", "f">>,
     <<".", ".", "/", "s">>, <<"/", "e">>,
     <<"f", "NUL">>, <<"\\", "f">>, <<"f", "LF", "g">>, <<"f", "HT">>, <<"f", "DEL">>,
     <<"a", "/", ".", "h">>, <<".">>, <<"a", "/", ".">>, <<".", "h">>,
     <<"~">>, <<"$", "x">>, <<"f", "*">>, <<"a", "\\", "f">>,
     Fill(kMaxFilenameLength, "f"),
     <<"a", "/">> \o Fill(kMaxFilenameLength - 1, "f")}

\* the root directories: one not set, absolute ones, one that is a symbolic
\* link, one relative to the current directory
Roots == {<<>>, <<"/", "r">>, <<"/", "r", "/">>, <<"/", "n">>, <<"/", "r", "/", "a">>, <<"r">>}

\* the links of the second file system: /r/l -> /e, /r/i -> /r/a,
\* /r/o -> /r/o, /r/p -> /r2, /r/d -> /r/x..y, /n -> /r
LinkTargets ==
    [from \in {<<<<"r">>, <<"l">>>>, <<<<"r">>, <<"i">>>>, <<<<"r">>, <<"o">>>>,
               <<<<"r">>, <<"p">>>>, <<<<"r">>, <<"d">>>>, <<<<"n">>>>} |->
        CASE from = <<<<"r">>, <<"l">>>> -> <<<<"e">>>>
          [] from = <<<<"r">>, <<"i">>>> -> <<<<"r">>, <<"a">>>>
          [] from = <<<<"r">>, <<"o">>>> -> <<<<"r">>, <<"o">>>>
          [] from = <<<<"r">>, <<"p">>>> -> <<<<"r", "2">>>>
          [] from = <<<<"r">>, <<"d">>>> -> <<<<"r">>, <<"x", ".", ".", "y">>>>
          [] from = <<<<"n">>>> -> <<<<"r">>>>]

\* a file system without symbolic links and one with
FileSystems == {<<>>, LinkTargets}

\* IsPathSecure is called and returns
CallIsPathSecure ==
    /\ path_pc = "call"
    /\ LET r == IsPathSecureUnder(path_arg, root_arg, links_arg)
       IN  /\ path_ret' = r.ret
           /\ path_raised' = r.raised
    /\ path_pc' = "done"
    /\ UNCHANGED <<path_arg, root_arg, links_arg>>
    /\ UNCHANGED <<session_vars, server_vars, config_vars, codec_vars, pool_vars,
                   rest_vars>>

PathInit ==
    /\ ServerIdle
    /\ ConfigConstructed
    /\ CodecIdle
    /\ PoolIdle
    /\ RestIdle
    /\ path_arg \in RequestedNames
    /\ root_arg \in Roots
    /\ links_arg \in FileSystems
    /\ path_pc = "call"
    /\ path_ret = FALSE
    /\ path_raised = FALSE

PathNext == CallIsPathSecure

PathSpec == PathInit /\ [][PathNext]_vars

\* the bytes the interface calls control characters
ControlChars == {"HT", "LF", "DEL"}

\* C26: IsPathSecure returns true only if the requested name is non-empty
\* and at most 255 bytes long, has no 0x00 byte and no ASCII control
\* character, contains none of the forbidden substrings and characters, and
\* starts with neither '/' nor '\'.
C26_LexicalFilters ==
    (path_pc = "done" /\ path_ret) =>
        /\ path_arg # <<>>
        /\ Len(path_arg) <= 255
        /\ \A i \in 1..Len(path_arg) : path_arg[i] \notin ControlChars \cup {"NUL"}
        /\ \A pat \in DangerousPatterns : ~Contains(path_arg, pat)
        /\ Head(path_arg) \notin {"/", "\\"}

\* the components of b, after those of a
Inside(a, b) == Len(b) > Len(a) /\ SubSeq(b, 1, Len(a)) = a

MaxSubmits == 2
MaxShutdowns == 2

\* what a step of the pool leaves alone
PoolFrame ==
    UNCHANGED <<running_, sockfd_, server_thread_, thread_pool_, thread_pool_mutex_,
                api_pc, loop_pc, last_call, last_ret, close_wakes, session_vars,
                config_vars, codec_vars, path_vars, rest_vars>>

\* the predicate of condition_.wait
WaitPredicate == stopping_ \/ tasks_ > 0

Blocked == {w \in Workers : workers_[w] = "blocked"}

\* condition_.notify_one(): one of the blocked workers, if there is one
NotifyOne ==
    IF Blocked = {} THEN {workers_}
    ELSE {[workers_ EXCEPT ![w] = "woken"] : w \in Blocked}

\* condition_.notify_all()
NotifyAll == [w \in Workers |-> IF w \in Blocked THEN "woken" ELSE workers_[w]]

\* Submit is called: if (stopping_) throw, before the task is made
SubmitCheck ==
    /\ submit_pc = "idle"
    /\ submits < MaxSubmits
    /\ submits' = submits + 1
    /\ submit_after' = (shutdowns > 0)
    /\ submit_pc' = IF stopping_ THEN "idle" ELSE "made"
    /\ submit_ret' = IF stopping_ THEN "threw" ELSE "none"
    /\ UNCHANGED <<stopping_, tasks_, workers_, queue_mutex_, active_tasks_,
                   shutdown_pc, accepted, executed, discarded, shutdowns, late>>
    /\ UNCHANGED caught
    /\ PoolFrame

\* std::unique_lock<std::mutex> lock(queue_mutex_)
SubmitLock ==
    /\ submit_pc = "made"
    /\ queue_mutex_ = "free"
    /\ queue_mutex_' = "locked"
    /\ submit_pc' = "locked"
    /\ UNCHANGED <<stopping_, tasks_, workers_, active_tasks_, shutdown_pc,
                   submits, accepted, executed, discarded, shutdowns, late,
                   submit_after, submit_ret>>
    /\ UNCHANGED caught
    /\ PoolFrame

\* if (stopping_) throw, under the lock; the throw releases the lock
SubmitCheckLocked ==
    /\ submit_pc = "locked"
    /\ submit_pc' = IF stopping_ THEN "idle" ELSE "checked"
    /\ submit_ret' = IF stopping_ THEN "threw" ELSE "none"
    /\ queue_mutex_' = IF stopping_ THEN "free" ELSE "locked"
    /\ UNCHANGED <<stopping_, tasks_, workers_, active_tasks_, shutdown_pc,
                   submits, accepted, executed, discarded, shutdowns, late,
                   submit_after>>
    /\ UNCHANGED caught
    /\ PoolFrame

\* tasks_.emplace(...) and the end of the locked block
SubmitEmplace ==
    /\ submit_pc = "checked"
    /\ tasks_' = tasks_ + 1
    /\ late' = IF stopping_ THEN late + 1 ELSE late
    /\ queue_mutex_' = "free"
    /\ submit_pc' = "notify"
    /\ UNCHANGED <<stopping_, workers_, active_tasks_, shutdown_pc, submits,
                   accepted, executed, discarded, shutdowns, submit_after,
                   submit_ret>>
    /\ UNCHANGED caught
    /\ PoolFrame

\* condition_.notify_one() and the normal return
SubmitNotify ==
    /\ submit_pc = "notify"
    /\ accepted' = accepted + 1
    /\ submit_ret' = "ok"
    /\ submit_pc' = "idle"
    /\ \E ws \in NotifyOne : workers_' = ws
    /\ UNCHANGED <<stopping_, tasks_, queue_mutex_, active_tasks_, shutdown_pc,
                   submits, executed, discarded, shutdowns, late, submit_after>>
    /\ UNCHANGED caught
    /\ PoolFrame

\* Shutdown is called: if (stopping_.exchange(true)) return
ShutdownExchange ==
    /\ shutdown_pc = "idle"
    /\ shutdowns < MaxShutdowns
    /\ stopping_' = TRUE
    /\ shutdown_pc' = IF stopping_ THEN "idle" ELSE "notify"
    /\ shutdowns' = IF stopping_ THEN shutdowns + 1 ELSE shutdowns
    /\ UNCHANGED <<tasks_, workers_, queue_mutex_, active_tasks_, submit_pc,
                   submits, accepted, executed, discarded, late, submit_after,
                   submit_ret>>
    /\ UNCHANGED caught
    /\ PoolFrame

\* condition_.notify_all()
ShutdownNotifyAll ==
    /\ shutdown_pc = "notify"
    /\ workers_' = NotifyAll
    /\ shutdown_pc' = "join"
    /\ UNCHANGED <<stopping_, tasks_, queue_mutex_, active_tasks_, submit_pc,
                   submits, accepted, executed, discarded, shutdowns, late,
                   submit_after, submit_ret>>
    /\ UNCHANGED caught
    /\ PoolFrame

\* worker.join() for every worker
ShutdownJoin ==
    /\ shutdown_pc = "join"
    /\ WorkersExited
    /\ shutdown_pc' = "clear"
    /\ UNCHANGED <<stopping_, tasks_, workers_, queue_mutex_, active_tasks_,
                   submit_pc, submits, accepted, executed, discarded, shutdowns,
                   late, submit_after, submit_ret>>
    /\ UNCHANGED caught
    /\ PoolFrame

\* the remaining tasks are swapped out under the lock; Shutdown returns
ShutdownClear ==
    /\ shutdown_pc = "clear"
    /\ queue_mutex_ = "free"
    /\ discarded' = discarded + tasks_
    /\ tasks_' = 0
    /\ shutdowns' = shutdowns + 1
    /\ shutdown_pc' = "idle"
    /\ UNCHANGED <<stopping_, workers_, queue_mutex_, active_tasks_, submit_pc,
                   submits, accepted, executed, late, submit_after, submit_ret>>
    /\ UNCHANGED caught
    /\ PoolFrame

\* while (!stopping_)
PoolWorkerTest(w) ==
    /\ workers_[w] = "test"
    /\ workers_' = [workers_ EXCEPT ![w] = IF stopping_ THEN "exited" ELSE "lock"]
    /\ UNCHANGED <<stopping_, tasks_, queue_mutex_, active_tasks_, submit_pc,
                   shutdown_pc, submits, accepted, executed, discarded, shutdowns,
                   late, submit_after, submit_ret>>
    /\ UNCHANGED caught
    /\ PoolFrame

\* std::unique_lock<std::mutex> lock(queue_mutex_), and the lock taken again
\* when a wait ends
PoolWorkerLock(w) ==
    /\ workers_[w] \in {"lock", "woken"}
    /\ queue_mutex_ = "free"
    /\ queue_mutex_' = "locked"
    /\ workers_' = [workers_ EXCEPT ![w] = "pred"]
    /\ UNCHANGED <<stopping_, tasks_, active_tasks_, submit_pc, shutdown_pc,
                   submits, accepted, executed, discarded, shutdowns, late,
                   submit_after, submit_ret>>
    /\ UNCHANGED caught
    /\ PoolFrame

\* condition_.wait(lock, pred): the predicate is tested under the lock
PoolWorkerWait(w) ==
    /\ workers_[w] = "pred"
    /\ workers_' = [workers_ EXCEPT ![w] = IF WaitPredicate THEN "decide" ELSE "sleep"]
    /\ UNCHANGED queue_mutex_
    /\ UNCHANGED <<stopping_, tasks_, active_tasks_, submit_pc, shutdown_pc,
                   submits, accepted, executed, discarded, shutdowns, late,
                   submit_after, submit_ret>>
    /\ UNCHANGED caught
    /\ PoolFrame

\* the predicate was false: the wait releases the lock and blocks, in one step
PoolWorkerBlock(w) ==
    /\ workers_[w] = "sleep"
    /\ workers_' = [workers_ EXCEPT ![w] = "blocked"]
    /\ queue_mutex_' = "free"
    /\ UNCHANGED <<stopping_, tasks_, active_tasks_, submit_pc, shutdown_pc,
                   submits, accepted, executed, discarded, shutdowns, late,
                   submit_after, submit_ret>>
    /\ UNCHANGED caught
    /\ PoolFrame

\* a wait may end without a notification
PoolSpuriousWake(w) ==
    /\ workers_[w] = "blocked"
    /\ workers_' = [workers_ EXCEPT ![w] = "woken"]
    /\ UNCHANGED <<stopping_, tasks_, queue_mutex_, active_tasks_, submit_pc,
                   shutdown_pc, submits, accepted, executed, discarded, shutdowns,
                   late, submit_after, submit_ret>>
    /\ UNCHANGED caught
    /\ PoolFrame

\* after the wait: break when stopping_ and the queue is empty, else take
\* the front task; the lock is released
PoolWorkerDecide(w) ==
    /\ workers_[w] = "decide"
    /\ workers_' = [workers_ EXCEPT ![w] = IF stopping_ /\ tasks_ = 0 THEN "exited"
                                        ELSE IF tasks_ > 0 THEN "begin" ELSE "test"]
    /\ tasks_' = IF ~(stopping_ /\ tasks_ = 0) /\ tasks_ > 0 THEN tasks_ - 1 ELSE tasks_
    /\ queue_mutex_' = "free"
    /\ UNCHANGED <<stopping_, active_tasks_, submit_pc, shutdown_pc, submits,
                   accepted, executed, discarded, shutdowns, late, submit_after,
                   submit_ret>>
    /\ UNCHANGED caught
    /\ PoolFrame

\* active_tasks_.fetch_add(1)
PoolWorkerBegin(w) ==
    /\ workers_[w] = "begin"
    /\ active_tasks_' = active_tasks_ + 1
    /\ workers_' = [workers_ EXCEPT ![w] = "task"]
    /\ UNCHANGED <<stopping_, tasks_, queue_mutex_, submit_pc, shutdown_pc,
                   submits, accepted, executed, discarded, shutdowns, late,
                   submit_after, submit_ret>>
    /\ UNCHANGED caught
    /\ PoolFrame

\* task() runs and returns
PoolWorkerRun(w) ==
    /\ workers_[w] = "task"
    /\ executed' = executed + 1
    /\ workers_' = [workers_ EXCEPT ![w] = "end"]
    /\ UNCHANGED <<stopping_, tasks_, queue_mutex_, active_tasks_, submit_pc,
                   shutdown_pc, submits, accepted, discarded, shutdowns, late,
                   submit_after, submit_ret>>
    /\ UNCHANGED caught
    /\ PoolFrame

\* a worker thread that ends with the exception
AfterCatch_Terminates == "exited"

\* where the worker is after either catch clause: at the fetch_sub
AfterCatch == "end"

\* task() throws: catch (const std::exception&) or catch (...) logs it
PoolWorkerCatch(w) ==
    /\ workers_[w] = "task"
    /\ workers_' = [workers_ EXCEPT ![w] = AfterCatch]
    /\ caught' = [caught EXCEPT ![w] = @ + 1]
    /\ executed' = executed + 1
    /\ UNCHANGED <<stopping_, tasks_, queue_mutex_, active_tasks_, submit_pc,
                   shutdown_pc, submits, accepted, discarded, shutdowns, late,
                   submit_after, submit_ret>>
    /\ PoolFrame

\* active_tasks_.fetch_sub(1)
PoolWorkerEnd(w) ==
    /\ workers_[w] = "end"
    /\ active_tasks_' = active_tasks_ - 1
    /\ workers_' = [workers_ EXCEPT ![w] = "test"]
    /\ UNCHANGED <<stopping_, tasks_, queue_mutex_, submit_pc, shutdown_pc,
                   submits, accepted, executed, discarded, shutdowns, late,
                   submit_after, submit_ret>>
    /\ UNCHANGED caught
    /\ PoolFrame

\* a pool whose constructor has started the workers
PoolInit ==
    /\ secure_mode = TRUE
    /\ max_transfer_size = kMaxTransferSize
    /\ HandlerIdle
    /\ running_ = FALSE
    /\ sockfd_ = "invalid"
    /\ server_thread_ = "none"
    /\ thread_pool_ = TRUE
    /\ thread_pool_mutex_ = "free"
    /\ stopping_ = FALSE
    /\ tasks_ = 0
    /\ workers_ = [w \in Workers |-> "test"]
    /\ api_pc = "idle"
    /\ loop_pc = "none"
    /\ last_call = "none"
    /\ last_ret = FALSE
    /\ close_wakes = FALSE
    /\ ConfigConstructed
    /\ CodecIdle
    /\ PathIdle
    /\ PoolIdle
    /\ RestIdle

SubmitSteps == SubmitLock \/ SubmitCheckLocked \/ SubmitEmplace \/ SubmitNotify

ShutdownSteps == ShutdownNotifyAll \/ ShutdownJoin \/ ShutdownClear

PoolWorkerSteps(w) ==
    \/ PoolWorkerTest(w)
    \/ PoolWorkerLock(w)
    \/ PoolWorkerWait(w)
    \/ PoolWorkerBlock(w)
    \/ PoolWorkerDecide(w)
    \/ PoolWorkerBegin(w)
    \/ PoolWorkerRun(w)
    \/ PoolWorkerCatch(w)
    \/ PoolWorkerEnd(w)

PoolNext ==
    \/ SubmitCheck
    \/ SubmitLock
    \/ SubmitCheckLocked
    \/ SubmitEmplace
    \/ SubmitNotify
    \/ ShutdownExchange
    \/ ShutdownNotifyAll
    \/ ShutdownJoin
    \/ ShutdownClear
    \/ \E w \in Workers : PoolWorkerTest(w)
    \/ \E w \in Workers : PoolWorkerLock(w)
    \/ \E w \in Workers : PoolWorkerWait(w)
    \/ \E w \in Workers : PoolWorkerBlock(w)
    \/ \E w \in Workers : PoolSpuriousWake(w)
    \/ \E w \in Workers : PoolWorkerDecide(w)
    \/ \E w \in Workers : PoolWorkerBegin(w)
    \/ \E w \in Workers : PoolWorkerRun(w)
    \/ \E w \in Workers : PoolWorkerCatch(w)
    \/ \E w \in Workers : PoolWorkerEnd(w)

PoolSpec == PoolInit /\ [][PoolNext]_vars

\* a thread inside Submit or Shutdown goes on, and so does every worker; a
\* thread that waits for the lock gets it when it is free again and again;
\* nothing makes anyone call Submit or Shutdown, or a wait end by itself
PoolFairSpec ==
    /\ PoolSpec
    /\ WF_vars(SubmitSteps)
    /\ SF_vars(SubmitLock)
    /\ WF_vars(ShutdownSteps)
    /\ SF_vars(ShutdownClear)
    /\ \A w \in Workers : WF_vars(PoolWorkerSteps(w)) /\ SF_vars(PoolWorkerLock(w))

\* C28: under every interleaving of Submit and Shutdown no task is put in
\* the queue after Shutdown has raised stopping_, and a Submit that starts
\* after Shutdown returned throws.
C28_NoTaskAfterFlag ==
    /\ late = 0
    /\ (submit_ret = "ok" /\ submit_pc = "idle") => ~submit_after

\* C29: every task whose Submit returned normally is eventually executed,
\* tasks still queued when Shutdown is called included.
C29_AcceptedTasksRun ==
    \A n \in 1..MaxSubmits : (accepted >= n) ~> (executed >= n)

\* C30: once a call of Shutdown has returned, no task is executing, the
\* active count is 0, every worker has exited and the queue is empty, and it
\* stays so through a second call of Shutdown.
C30_ShutdownWaits ==
    shutdowns >= 1 =>
        /\ active_tasks_ = 0
        /\ \A w \in Workers : workers_[w] = "exited"
        /\ tasks_ = 0
        /\ stopping_

\* a second Shutdown has returned after a task was run
C30_Witness ==
    /\ shutdowns = 2
    /\ executed >= 1
    /\ shutdown_pc = "idle"

(***************************************************************************)
(* The counters of the pool as another thread reads them.                  *)
(***************************************************************************)
\* GetActiveTaskCount: active_tasks_.load()
GetActiveTaskCount == active_tasks_

\* GetQueuedTaskCount: tasks_.size() under queue_mutex_
GetQueuedTaskCount == tasks_

\* the tasks whose Submit has returned and that have not finished; a task
\* that has returned counts as unfinished until its worker's fetch_sub
Unfinished == accepted - executed + Cardinality({w \in Workers : workers_[w] = "end"})

\* a moment at which both getters can be called: no Submit is in progress and
\* the queue's lock is free
Observable == submit_pc = "idle" /\ queue_mutex_ = "free"

\* C31: at every observable moment of a pool that is not shutting down,
\* GetActiveTaskCount is at most the number of workers and GetActiveTaskCount
\* + GetQueuedTaskCount equals the number of tasks submitted and not yet
\* finished; both are 0 once every submitted task has finished.
C31_TaskCounts ==
    (~stopping_ /\ Observable) =>
        /\ GetActiveTaskCount <= NumWorkers
        /\ GetActiveTaskCount + GetQueuedTaskCount = Unfinished
        /\ Unfinished = 0 => (GetActiveTaskCount = 0 /\ GetQueuedTaskCount = 0)

Unwinds(n) ==
    /\ pc' = "Done"
    /\ result' = "Exception"
    /\ file_data' = n.file_data
    /\ offset' = n.offset
    /\ block_number' = n.block_number
    /\ expected_block' = n.expected_block
    /\ has_expected_size' = n.has_expected_size
    /\ expected_file_size' = n.expected_file_size
    /\ trace' = trace \o n.ev
    /\ write_calls' = n.wcalls
    /\ sock_open' = n.created
    /\ sock_created' = n.created
    /\ UNCHANGED <<secure_mode, max_transfer_size, init_pkt, client_addr>>
    /\ UNCHANGED <<server_vars, other_vars>>

\* read_callback_(filepath, file_data) throws: the session socket is bound
\* and the path check has passed
ReadCallbackThrows ==
    /\ pc = "Start"
    /\ Deserialized(init_pkt)
    /\ ~PathRejected(secure_mode, init_pkt.filename)
    /\ init_pkt.op = kReadRequest
    /\ Unwinds([Cur EXCEPT !.created = TRUE,
                           !.ev = <<Ev("throw", "none", NoPacket, FALSE)>>])

\* write_callback_(filepath, file_data) throws: the final block has been
\* received and acknowledged
WriteCallbackThrows ==
    /\ pc = "WaitData"
    /\ \E rcv \in Receives(expected_block), f \in SendFailures :
          LET n == WriteLoop(Cur, rcv, TRUE, f, 0)
          IN  /\ n.pc = "Done"
              /\ n.result = "Completed"
              /\ Unwinds([n EXCEPT !.ev = SubSeq(@, 1, Len(@) - 1)
                                          \o <<Ev("throw", "none", NoPacket, FALSE)>>])

ExceptNext == Next \/ ReadCallbackThrows \/ WriteCallbackThrows

\* one session whose storage callbacks may throw
ExceptSpec == Init /\ [][ExceptNext]_vars

\* C33: the session socket is released on every path by which the session
\* ends, a thrown exception included: once the handler has returned no
\* session socket is open.
C33_SocketReleased == pc = "Done" => ~sock_open

\* entries i .. i + kMaxRetries - 1 of the trace are failed attempts to send
\* one and the same packet
FiveFailedAttempts(i) ==
    /\ i + kMaxRetries - 1 <= Len(trace)
    /\ \A j \in i..(i + kMaxRetries - 1) :
          /\ trace[j].kind = "sendfail"
          /\ trace[j].pkt = trace[i].pkt
          /\ trace[j].addr = trace[i].addr

\* C34: for any one packet (DATA, ACK, OACK or ERROR) the session makes at
\* most 5 send attempts; when 5 attempts have failed the session sends
\* nothing further.
C34_FiveAttemptsAtMost ==
    \A i \in 1..Len(trace) :
        FiveFailedAttempts(i) =>
            \A j \in (i + kMaxRetries)..Len(trace) : ~IsAttempt(trace[j])

(***************************************************************************)
(* The dispatcher seen from the clients: every datagram ServerLoop         *)
(* receives on the well-known port becomes one task, and every task whose  *)
(* packet is a request becomes one session.  The datagrams of this model   *)
(* are well-formed requests.                                               *)
(***************************************************************************)
DispatchFrame ==
    UNCHANGED <<session_vars, server_vars, config_vars, codec_vars, path_vars,
                pool_vars, lock_vars, wrap_vars>>

\* recvfrom returns a datagram sent by client t
DispatchRecvfrom(t) ==
    /\ datagram_from = "none"
    /\ Len(queued_from) < MaxQueued
    /\ datagram_from' = t
    /\ UNCHANGED <<queued_from, serving>>
    /\ DispatchFrame

\* thread_pool_->Submit of a task that captures the packet and client_addr;
\* nothing is looked up before it
DispatchSubmit ==
    /\ datagram_from # "none"
    /\ queued_from' = Append(queued_from, datagram_from)
    /\ datagram_from' = "none"
    /\ UNCHANGED serving
    /\ DispatchFrame

\* a worker takes the front task and calls HandleClient, which makes and
\* binds the session socket
SessionBegins(w) ==
    /\ serving[w] = "none"
    /\ queued_from # <<>>
    /\ serving' = [serving EXCEPT ![w] = Head(queued_from)]
    /\ queued_from' = Tail(queued_from)
    /\ UNCHANGED datagram_from
    /\ DispatchFrame

\* HandleClient returns
SessionEnds(w) ==
    /\ serving[w] # "none"
    /\ serving' = [serving EXCEPT ![w] = "none"]
    /\ UNCHANGED <<datagram_from, queued_from>>
    /\ DispatchFrame

\* the server object after a Start that returned true
ServerRunning ==
    /\ running_ = TRUE
    /\ sockfd_ = "open"
    /\ server_thread_ = "joinable"
    /\ thread_pool_ = TRUE
    /\ thread_pool_mutex_ = "free"
    /\ stopping_ = FALSE
    /\ tasks_ = 0
    /\ workers_ = [w \in Workers |-> "wait"]
    /\ api_pc = "idle"
    /\ loop_pc = "while"
    /\ last_call = "Start"
    /\ last_ret = TRUE
    /\ close_wakes = FALSE

DispatchInit ==
    /\ secure_mode = TRUE
    /\ max_transfer_size = kMaxTransferSize
    /\ HandlerIdle
    /\ ServerRunning
    /\ ConfigConstructed
    /\ CodecIdle
    /\ PathIdle
    /\ PoolIdle
    /\ RestIdle

DispatchNext ==
    \/ \E t \in Tids : DispatchRecvfrom(t)
    \/ DispatchSubmit
    \/ \E w \in Workers : SessionBegins(w)
    \/ \E w \in Workers : SessionEnds(w)

DispatchSpec == DispatchInit /\ [][DispatchNext]_vars

\* the sessions that are active for client t
ActiveSessions(t) == {w \in Workers : serving[w] = t}

\* C35: at most one session per client TID is active at any time: a further
\* request from a client whose session is active creates no second session.
C35_OneSessionPerTid ==
    \A t \in Tids : Cardinality(ActiveSessions(t)) <= 1

(***************************************************************************)
(* Termination of a session.  The worker thread runs, every sendto         *)
(* returns, and every ReceivePacket returns within the timeout (a timeout  *)
(* is always among the outcomes of a receive), so a session that has not   *)
(* returned always takes its next step.                                    *)
(***************************************************************************)
FairSpec == Spec /\ WF_vars(Next)

\* the DATA blocks an RRQ has sent and a WRQ has accepted stay within the
\* numbers the file and max_transfer_size allow
BlocksBounded ==
    /\ IsRead => Len(SentData) <= (Len(file_data) \div kMaxDataSize) + 1
    /\ IsWrite => Len(AcceptedData) <= (max_transfer_size \div kMaxDataSize) + 1

\* C36: every session eventually terminates whatever the peer does; an RRQ
\* sends at most floor(L/512)+1 blocks and a WRQ receives at most
\* max_transfer_size/512 + 1 blocks before it ends.
C36_SessionsTerminate == <>Done /\ []BlocksBounded

\* a WRQ session has ended after the peer sent full blocks until the limit
\* was passed
C36_Witness ==
    /\ Done /\ IsWrite
    /\ result = "TooLarge"
    /\ Len(AcceptedData) = (max_transfer_size \div kMaxDataSize) + 1

\* C37: after Shutdown has raised stopping_, every worker sees it and exits,
\* wherever it was (in a task, blocked in the wait, or between the wait's
\* predicate and the block), so the joins of Shutdown return.
C37_WorkersExit ==
    stopping_ ~> (\A w \in Workers : workers_[w] = "exited")

(***************************************************************************)
(* config_mutex_.  A session takes it shared around its reads of the       *)
(* configuration (here the block of HandleReadRequest: the call of         *)
(* read_callback_ and the read of max_transfer_size_); the setters of      *)
(* TftpServerImpl assign the members without taking it.  The assignment of *)
(* a std::function is not one store, so it is two steps here; a call of    *)
(* the member made between them is a data race, whose outcome is any of    *)
(* the old target, the new target or neither.                              *)
(***************************************************************************)
LockFrame ==
    UNCHANGED <<secure_mode, init_pkt, client_addr, pc, result, sock_open,
                sock_created, file_data, offset, block_number, expected_block,
                has_expected_size, expected_file_size, trace, write_calls,
                server_vars, write_callback_, timeout_seconds_, last_setter,
                codec_vars, path_vars, pool_vars, dispatch_vars, wrap_vars>>

\* the callbacks and sizes the setters are called with, all of them valid
UserCallbacks == CallbackArgs \ {"null"}
ValidSizes == {kMinTransferSize, 2 * kMinTransferSize}

\* std::shared_lock<std::shared_mutex> lock(config_mutex_): no thread ever
\* holds the mutex exclusively, so the lock is granted at once
ReaderLockShared ==
    /\ reader_pc = "idle"
    /\ config_mutex_' = config_mutex_ + 1
    /\ reader_pc' = "call"
    /\ UNCHANGED <<setter_pc, observed, overlap, read_callback_, max_transfer_size>>
    /\ LockFrame

\* the target a call of read_callback_ runs
CalledTargets ==
    IF setter_pc.at = "assigning" THEN {read_callback_, setter_pc.arg, "torn"}
    ELSE {read_callback_}

\* success = read_callback_(filepath, file_data): the call begins
ReaderCallsCallback ==
    /\ reader_pc = "call"
    /\ \E target \in CalledTargets : observed' = [observed EXCEPT !.callback = target]
    /\ reader_pc' = "callback"
    /\ UNCHANGED <<config_mutex_, setter_pc, overlap, read_callback_, max_transfer_size>>
    /\ LockFrame

\* the callback returns
ReaderCallbackReturns ==
    /\ reader_pc = "callback"
    /\ reader_pc' = "size"
    /\ UNCHANGED <<config_mutex_, setter_pc, observed, overlap, read_callback_,
                   max_transfer_size>>
    /\ LockFrame

\* max_size = max_transfer_size_
ReaderReadsSize ==
    /\ reader_pc = "size"
    /\ observed' = [observed EXCEPT !.size = max_transfer_size]
    /\ reader_pc' = "unlock"
    /\ UNCHANGED <<config_mutex_, setter_pc, overlap, read_callback_, max_transfer_size>>
    /\ LockFrame

\* the end of the block: the shared lock is released
ReaderUnlock ==
    /\ reader_pc = "unlock"
    /\ config_mutex_' = config_mutex_ - 1
    /\ reader_pc' = "idle"
    /\ UNCHANGED <<setter_pc, observed, overlap, read_callback_, max_transfer_size>>
    /\ LockFrame

\* SetReadCallback: read_callback_ = std::move(callback) begins
AssignCallbackBegins(callback) ==
    /\ setter_pc.at = "idle"
    /\ setter_pc' = [at |-> "assigning", arg |-> callback]
    /\ overlap' = (overlap \/ config_mutex_ > 0)
    /\ UNCHANGED <<config_mutex_, reader_pc, observed, read_callback_, max_transfer_size>>
    /\ LockFrame

\* the assignment is complete and SetReadCallback returns
AssignCallbackEnds ==
    /\ setter_pc.at = "assigning"
    /\ read_callback_' = setter_pc.arg
    /\ setter_pc' = [at |-> "idle"]
    /\ overlap' = (overlap \/ config_mutex_ > 0)
    /\ UNCHANGED <<config_mutex_, reader_pc, observed, max_transfer_size>>
    /\ LockFrame

\* SetMaxTransferSize: max_transfer_size_ = size
AssignMaxTransferSize(size) ==
    /\ setter_pc.at = "idle"
    /\ max_transfer_size' = size
    /\ overlap' = (overlap \/ config_mutex_ > 0)
    /\ UNCHANGED <<config_mutex_, reader_pc, setter_pc, observed, read_callback_>>
    /\ LockFrame

LockInit ==
    /\ secure_mode = TRUE
    /\ max_transfer_size = kMinTransferSize
    /\ HandlerIdle
    /\ ServerRunning
    /\ ConfigConstructed
    /\ CodecIdle
    /\ PathIdle
    /\ PoolIdle
    /\ DispatchIdle
    /\ WrapIdle
    /\ config_mutex_ = 0
    /\ reader_pc = "idle"
    /\ setter_pc = [at |-> "idle"]
    /\ observed = [callback |-> "none", size |-> 0]
    /\ overlap = FALSE

LockNext ==
    \/ ReaderLockShared
    \/ ReaderCallsCallback
    \/ ReaderCallbackReturns
    \/ ReaderReadsSize
    \/ ReaderUnlock
    \/ \E callback \in UserCallbacks : AssignCallbackBegins(callback)
    \/ AssignCallbackEnds
    \/ \E size \in ValidSizes : AssignMaxTransferSize(size)

LockSpec == LockInit /\ [][LockNext]_vars

\* C38: a setter never modifies a configuration value while a session holds
\* the shared lock (is reading the value or is inside a storage callback),
\* so what a session observes is a value entirely before or entirely after
\* a setter call.
C38_SettersExcluded ==
    /\ setter_pc.at = "assigning" => config_mutex_ = 0
    /\ ~overlap
    /\ observed.callback # "torn"

(***************************************************************************)
(* Transfers of more than 65535 blocks.  The loops of HandleReadRequest    *)
(* and HandleWriteRequest are taken one round at a time, with file_data    *)
(* reduced to its size, against a peer that follows the protocol: it       *)
(* acknowledges the block number it finds in the DATA packet, and numbers  *)
(* its own DATA packets 1, 2, ... modulo 2^16.                             *)
(***************************************************************************)
\* the blocks of the longest transfer of the model
WrapBlocks == 65537

\* the sizes of the files read: 65536 blocks, the last of them empty, and
\* WrapBlocks blocks, the last of them short
WrapFileSizes == {65535 * kMaxDataSize, (WrapBlocks - 1) * kMaxDataSize + 100}

\* the block number as the two bytes of a packet carry it
OnWire(block) == block % BlockModulus

WrapFrame ==
    UNCHANGED <<secure_mode, max_transfer_size, init_pkt, client_addr, pc, result,
                sock_open, sock_created, file_data, has_expected_size,
                expected_file_size, trace, write_calls, server_vars, config_vars,
                codec_vars, path_vars, pool_vars, dispatch_vars, lock_vars>>

\* one round of the loop of HandleReadRequest: DATA(block_number) is sent,
\* the peer acknowledges the number the packet carries, the ACK is checked
ReadRound ==
    /\ transfer = "rrq"
    /\ xfer_pc = "loop"
    /\ LET remaining == file_size - offset
           block_size == IF remaining > kMaxDataSize THEN kMaxDataSize ELSE remaining
           data_packet == CreateData(OnWire(block_number), <<>>)
           ack_packet == CreateAck(data_packet.block)
       IN  IF ~IsExpectedAck(ack_packet, block_number)
           THEN /\ xfer_pc' = "InvalidAck"
                /\ UNCHANGED <<offset, block_number, blocks>>
           ELSE /\ offset' = offset + block_size
                /\ block_number' = IncBlock(block_number)
                /\ blocks' = blocks + 1
                /\ xfer_pc' = IF IsLastPacket(block_size) THEN "Completed" ELSE "loop"
    /\ UNCHANGED <<transfer, file_size, expected_block>>
    /\ WrapFrame

\* one round of the loop of HandleWriteRequest: the peer sends its next DATA
\* packet, with size bytes; the block number is checked, the data appended,
\* ACK(expected_block) sent and the size limit checked
WriteRound(size) ==
    /\ transfer = "wrq"
    /\ xfer_pc = "loop"
    /\ LET data_packet == CreateData(OnWire(blocks + 1), <<>>)
       IN  IF data_packet.block # expected_block
           THEN /\ xfer_pc' = "InvalidBlock"
                /\ UNCHANGED <<file_size, expected_block, blocks>>
           ELSE /\ file_size' = file_size + size
                /\ expected_block' = IncBlock(expected_block)
                /\ blocks' = blocks + 1
                /\ xfer_pc' = IF file_size + size > max_transfer_size THEN "TooLarge"
                              ELSE IF size < kMaxDataSize THEN "Completed"
                              ELSE "loop"
    /\ UNCHANGED <<transfer, offset, block_number>>
    /\ WrapFrame

\* a read of a large file, or a write with max_transfer_size large enough
WrapInit ==
    /\ secure_mode = TRUE
    /\ max_transfer_size = WrapBlocks * kMaxDataSize
    /\ HandlerIdle
    /\ ServerRunning
    /\ ConfigConstructed
    /\ CodecIdle
    /\ PathIdle
    /\ PoolIdle
    /\ DispatchIdle
    /\ LockIdle
    /\ transfer \in {"rrq", "wrq"}
    /\ file_size \in (IF transfer = "rrq" THEN WrapFileSizes ELSE {0})
    /\ blocks = 0
    /\ xfer_pc = "loop"

WrapNext ==
    \/ ReadRound
    \/ \E size \in {100, kMaxDataSize} : WriteRound(size)

WrapSpec == WrapInit /\ [][WrapNext]_vars

\* C39: block numbers advance modulo 2^16: the block sent or expected next
\* is the number of blocks done plus one, modulo 2^16 (0 after 65535); a
\* transfer of more than 65535 blocks never stops over a block number, keeps
\* its data in order and completes.
C39_BlockNumbersWrap ==
    /\ xfer_pc \notin {"InvalidAck", "InvalidBlock"}
    /\ transfer = "rrq" =>
          /\ block_number = (blocks + 1) % 65536
          /\ xfer_pc = "loop" => offset = blocks * kMaxDataSize
          /\ xfer_pc = "Completed" =>
                (offset = file_size /\ blocks = (file_size \div kMaxDataSize) + 1)
    /\ transfer = "wrq" =>
          /\ expected_block = (blocks + 1) % 65536
          /\ xfer_pc = "loop" => file_size = blocks * kMaxDataSize
          /\ xfer_pc = "TooLarge" => blocks = WrapBlocks + 1

\* a transfer has completed after more than 65536 blocks, block 0 having
\* followed block 65535
C39_Witness ==
    /\ xfer_pc = "Completed"
    /\ blocks > 65536
    /\ (transfer = "rrq" => block_number = blocks + 1 - 65536)
    /\ (transfer = "wrq" => expected_block = blocks + 1 - 65536)

\* the places of the trace at which the write callback was called
WriteCalls == {i \in 1..Len(trace) : trace[i].kind = "write"}

\* C40: in a WRQ session the ACK of the final DATA block is sent before the
\* write callback runs: the entry before the call is the successful send of
\* ACK(n) for the final block n, a block shorter than 512 bytes; no ACK is
\* attempted after the call, and when the write fails all that follows is
\* Error(AccessViolation) to the client.
C40_AckBeforeWrite ==
    \A i \in WriteCalls :
        /\ IsWrite
        /\ i > 2
        /\ IsSend(trace[i - 1], kAcknowledge)
        /\ AcceptedData # <<>>
        /\ trace[i - 1].pkt.block = LastOf(AcceptedData).pkt.block
        /\ trace[i - 1].addr = LastOf(AcceptedData).addr
        /\ Len(LastOf(AcceptedData).pkt.data) < kMaxDataSize
        /\ \A j \in (i + 1)..Len(trace) :
              ~(IsAttempt(trace[j]) /\ trace[j].pkt.op = kAcknowledge)
        /\ ~trace[i].acc =>
              EndsWithError(i, client_addr, kAccessViolation, "File write failed")
        /\ trace[i].acc => i = Len(trace)

\* the write callback failed after ACK(2) was sent, and the error went out
C40_Witness ==
    /\ Done /\ IsWrite
    /\ result = "WriteFailed"
    /\ \E i \in WriteCalls :
          /\ ~trace[i].acc
          /\ trace[i - 1] = Ev("send", client_addr, CreateAck(2), TRUE)
          /\ LastOf(trace) = Ev("send", client_addr,
                                CreateError(kAccessViolation, "File write failed"), TRUE)

====
